---- MODULE Spec2Model ----
(***************************************************************************)
(* Benchmarking & Decision Engine of the campaign tracker.                 *)
(*                                                                         *)
(* The engine is three pure JavaScript functions: calculateAverageMetric,  *)
(* scoreMetric and getRecommendation.  A behaviour of the model is one     *)
(* call: the initial state holds the function and its arguments, and the   *)
(* function's action computes the value it returns.  Two further          *)
(* specifications follow it: SpecTasks runs calls of the engine as         *)
(* interleaved tasks, and SpecValidate calls validateCampaign of the       *)
(* validation utilities.                                                   *)
(*                                                                         *)
(* JavaScript values are modelled as records [t, n, d]:                    *)
(*   t = "num"        the finite number n/d (d > 0, lowest terms)          *)
(*   t = "inf"        +Infinity (n = 1) or -Infinity (n = -1)              *)
(*   t = "nan"        NaN                                                  *)
(*   t = "undefined"  undefined (a missing field or argument)              *)
(*   t = "null"       null                                                 *)
(*   t = "str"        a string, s its sequence of characters               *)
(*   t = "object"     an object, fields its properties                     *)
(* Finite numbers are exact rationals: the rounding of IEEE-754 doubles is *)
(* not modelled, and neither is the sign of zero.                          *)
(***************************************************************************)
EXTENDS Integers, Sequences, FiniteSets, TLC

VARIABLES
    pc,            \* "call" before the function runs, "done" once it returned
    op,            \* the function called
    value,         \* scoreMetric: argument value
    benchmark,     \* scoreMetric: argument benchmark
    lowerIsBetter, \* scoreMetric: argument lowerIsBetter
    isEngagement,  \* scoreMetric: argument isEngagement
    avgScore,      \* getRecommendation: argument avgScore
    campaigns,     \* calculateAverageMetric: argument campaigns
    metric,        \* calculateAverageMetric: argument metric
    campaignType,  \* calculateAverageMetric: argument campaignType
    result,        \* the value the call returned
    divided,       \* the call went on to divide by the benchmark or budget
    data,          \* the validators: the argument
    tasks,         \* interleaved calls: the state of each task
    cells,         \* interleaved calls: the accumulator of each reduce
    scores,        \* evaluation of a plan: the scores given so far
    state,         \* ErrorBoundary: this.state
    view,          \* ErrorBoundary: what its last render returned
    thrown,        \* ErrorBoundary: the error React is handing to it
    keydown,       \* ErrorBoundary: the key of the last keydown event
    development    \* ErrorBoundary: process.env.NODE_ENV === 'development'

boundaryVars == <<state, view, thrown, keydown, development>>

vars == <<pc, op, value, benchmark, lowerIsBetter, isEngagement, avgScore,
          campaigns, metric, campaignType, result, divided, data, tasks, cells,
          scores, boundaryVars>>

----------------------------------------------------------------------------
(* JavaScript numbers and their arithmetic                                  *)

Abs(x) == IF x < 0 THEN -x ELSE x

RECURSIVE GCD(_, _)
GCD(a, b) == IF b = 0 THEN a ELSE GCD(b, a % b)

\* The finite number n/d, d # 0, in lowest terms with a positive denominator.
Num(n, d) ==
    LET g == GCD(Abs(n), Abs(d))
        s == IF d < 0 THEN -1 ELSE 1
    IN  [t |-> "num", n |-> (s * n) \div g, d |-> (s * d) \div g]

FromInt(i) == Num(i, 1)

Zero == FromInt(0)

NaN == [t |-> "nan", n |-> 0, d |-> 1]

Undefined == [t |-> "undefined", n |-> 0, d |-> 1]

Null == [t |-> "null", n |-> 0, d |-> 1]

Infinity(s) == [t |-> "inf", n |-> s, d |-> 1]

\* The string of the characters s.
Str(s) == [t |-> "str", s |-> s]

IsDigit(c) == c \in {"0", "1", "2", "3", "4", "5", "6", "7", "8", "9"}

DigitValue(c) ==
    CASE c = "0" -> 0 [] c = "1" -> 1 [] c = "2" -> 2 [] c = "3" -> 3
      [] c = "4" -> 4 [] c = "5" -> 5 [] c = "6" -> 6 [] c = "7" -> 7
      [] c = "8" -> 8 [] c = "9" -> 9

\* String.prototype.trim, for strings whose only white space is the blank.
RECURSIVE Trim(_)
Trim(s) ==
    IF s = <<>> THEN s
    ELSE IF Head(s) = " " THEN Trim(Tail(s))
    ELSE IF s[Len(s)] = " " THEN Trim(SubSeq(s, 1, Len(s) - 1))
    ELSE s

RECURSIVE DigitsValue(_)
DigitsValue(s) ==
    IF s = <<>> THEN 0
    ELSE 10 * DigitsValue(SubSeq(s, 1, Len(s) - 1)) + DigitValue(s[Len(s)])

\* ToNumber of a string: 0 for an empty or blank string, the value of a
\* string of decimal digits, NaN for other text (signs, fractions, exponents
\* and other radixes do not occur in the strings of the model).
StringToNumber(s) ==
    LET body == Trim(s)
    IN  IF body = <<>> THEN Zero
        ELSE IF \A i \in DOMAIN body : IsDigit(body[i])
             THEN FromInt(DigitsValue(body))
             ELSE NaN

\* ToNumber: undefined converts to NaN, null to +0.
ToNumber(v) ==
    CASE v.t = "undefined" -> NaN
      [] v.t = "null"      -> Zero
      [] v.t = "str"       -> StringToNumber(v.s)
      [] OTHER             -> v

\* The sign of a number that is not NaN: -1, 0 or 1.
Sign(v) == IF v.n < 0 THEN -1 ELSE IF v.n > 0 THEN 1 ELSE 0

\* a / b
JsDiv(a0, b0) ==
    LET a == ToNumber(a0)
        b == ToNumber(b0)
    IN  CASE a.t = "nan" \/ b.t = "nan" -> NaN
          [] a.t = "inf" /\ b.t = "inf" -> NaN
          [] a.t = "inf" /\ b.t = "num" ->
                Infinity(IF Sign(b) < 0 THEN -(a.n) ELSE a.n)
          [] a.t = "num" /\ b.t = "inf" -> Zero
          [] OTHER ->
                IF b.n = 0
                THEN IF a.n = 0 THEN NaN ELSE Infinity(Sign(a))
                ELSE Num(a.n * b.d, a.d * b.n)

\* a * b
JsMul(a0, b0) ==
    LET a == ToNumber(a0)
        b == ToNumber(b0)
    IN  CASE a.t = "nan" \/ b.t = "nan" -> NaN
          [] a.t = "inf" \/ b.t = "inf" ->
                IF Sign(a) = 0 \/ Sign(b) = 0
                THEN NaN
                ELSE Infinity(Sign(a) * Sign(b))
          [] OTHER -> Num(a.n * b.n, a.d * b.d)

\* a + b
JsAdd(a0, b0) ==
    LET a == ToNumber(a0)
        b == ToNumber(b0)
    IN  CASE a.t = "nan" \/ b.t = "nan" -> NaN
          [] a.t = "inf" /\ b.t = "inf" -> IF a.n = b.n THEN a ELSE NaN
          [] a.t = "inf" -> a
          [] b.t = "inf" -> b
          [] OTHER -> Num(a.n * b.d + b.n * a.d, a.d * b.d)

\* -a
JsNeg(a0) ==
    LET a == ToNumber(a0)
    IN  CASE a.t = "nan" -> NaN
          [] a.t = "inf" -> Infinity(-(a.n))
          [] OTHER -> Num(-(a.n), a.d)

\* a - b
JsSub(a0, b0) == JsAdd(a0, JsNeg(b0))

\* a <= b: false as soon as one side is NaN.
JsLe(a0, b0) ==
    LET a == ToNumber(a0)
        b == ToNumber(b0)
    IN  CASE a.t = "nan" \/ b.t = "nan" -> FALSE
          [] a.t = "inf" /\ b.t = "inf" -> a.n <= b.n
          [] a.t = "inf" -> a.n < 0
          [] b.t = "inf" -> b.n > 0
          [] OTHER -> a.n * b.d <= b.n * a.d

\* a >= b
JsGe(a0, b0) == JsLe(b0, a0)

\* a < b
JsLt(a0, b0) ==
    LET a == ToNumber(a0)
        b == ToNumber(b0)
    IN  a.t # "nan" /\ b.t # "nan" /\ ~JsLe(b, a)

\* a > b
JsGt(a0, b0) == JsLt(b0, a0)

\* !v: true of undefined, null, NaN, 0 and the empty string.
Not(v) ==
    \/ v.t \in {"undefined", "null", "nan"}
    \/ (v.t = "num" /\ v.n = 0)
    \/ (v.t = "str" /\ v.s = <<>>)

\* typeof v === 'number'
IsNumber(v) == v.t \in {"num", "nan", "inf"}

\* v === 0
IsZero(v) == v.t = "num" /\ v.n = 0

----------------------------------------------------------------------------
(* Constant tables                                                          *)

PERFORMANCE_THRESHOLD_PERCENT == 15

ENGAGEMENT_VARIANCE_PERCENT == 20

SCORE_EXCELLENT == Num(35, 10)

SCORE_GOOD == Num(275, 100)

SCORE_REVIEW == Num(20, 10)

\* METRIC_SCORE numbered from zero.
METRIC_SCORE_FromZero == [EXCELLENT |-> 3, GOOD |-> 2, FAIR |-> 1, POOR |-> 0]

METRIC_SCORE == [EXCELLENT |-> 4, GOOD |-> 3, FAIR |-> 2, POOR |-> 1]

RECOMMENDATION_LEVELS ==
    [EXCELLENT |-> [label |-> "Excellent Plan", color |-> "text-emerald-800",
                    bgColor |-> "bg-emerald-100 border-emerald-300",
                    icon |-> "CheckCircle2"],
     GOOD      |-> [label |-> "Good Plan", color |-> "text-green-800",
                    bgColor |-> "bg-green-100 border-green-300",
                    icon |-> "CheckCircle"],
     REVIEW    |-> [label |-> "Review Carefully", color |-> "text-amber-800",
                    bgColor |-> "bg-amber-100 border-amber-300",
                    icon |-> "AlertTriangle"],
     POOR      |-> [label |-> "Consider Alternatives", color |-> "text-red-800",
                    bgColor |-> "bg-red-100 border-red-300",
                    icon |-> "AlertOctagon"]]

----------------------------------------------------------------------------
(* getRecommendation                                                        *)

\* getRecommendation with the Good boundary taken as exclusive.
getRecommendationExclusive(a) ==
    IF JsGe(a, SCORE_EXCELLENT) THEN RECOMMENDATION_LEVELS.EXCELLENT
    ELSE IF JsGe(a, SCORE_GOOD) /\ a # SCORE_GOOD THEN RECOMMENDATION_LEVELS.GOOD
    ELSE IF JsGe(a, SCORE_REVIEW) THEN RECOMMENDATION_LEVELS.REVIEW
    ELSE RECOMMENDATION_LEVELS.POOR

\* getRecommendation with the Good and Review levels exchanged.
getRecommendationExchanged(a) ==
    IF JsGe(a, SCORE_EXCELLENT) THEN RECOMMENDATION_LEVELS.EXCELLENT
    ELSE IF JsGe(a, SCORE_GOOD) THEN RECOMMENDATION_LEVELS.REVIEW
    ELSE IF JsGe(a, SCORE_REVIEW) THEN RECOMMENDATION_LEVELS.GOOD
    ELSE RECOMMENDATION_LEVELS.POOR

getRecommendation(a) ==
    IF JsGe(a, SCORE_EXCELLENT) THEN RECOMMENDATION_LEVELS.EXCELLENT
    ELSE IF JsGe(a, SCORE_GOOD) THEN RECOMMENDATION_LEVELS.GOOD
    ELSE IF JsGe(a, SCORE_REVIEW) THEN RECOMMENDATION_LEVELS.REVIEW
    ELSE RECOMMENDATION_LEVELS.POOR

----------------------------------------------------------------------------
(* scoreMetric                                                              *)

\* ((value - benchmark) / benchmark) * 100
PercentDiff(v, b) == JsMul(JsDiv(JsSub(v, b), b), FromInt(100))

\* Threshold with the performance threshold for every metric.
ThresholdForAll(e) == FromInt(PERFORMANCE_THRESHOLD_PERCENT)

\* isEngagement ? ENGAGEMENT_VARIANCE_PERCENT : PERFORMANCE_THRESHOLD_PERCENT
Threshold(e) ==
    IF e THEN FromInt(ENGAGEMENT_VARIANCE_PERCENT)
    ELSE FromInt(PERFORMANCE_THRESHOLD_PERCENT)

\* ScoreLower with the Excellent boundary taken as exclusive.
ScoreLowerExclusive(percentDiff, threshold) ==
    IF JsLe(percentDiff, JsNeg(threshold)) /\ percentDiff # JsNeg(threshold)
    THEN FromInt(METRIC_SCORE.EXCELLENT)
    ELSE IF JsLe(percentDiff, Zero) THEN FromInt(METRIC_SCORE.GOOD)
    ELSE IF JsLe(percentDiff, threshold) THEN FromInt(METRIC_SCORE.FAIR)
    ELSE FromInt(METRIC_SCORE.POOR)

\* The branch taken for costs: lower is better.
ScoreLower(percentDiff, threshold) ==
    IF JsLe(percentDiff, JsNeg(threshold)) THEN FromInt(METRIC_SCORE.EXCELLENT)
    ELSE IF JsLe(percentDiff, Zero) THEN FromInt(METRIC_SCORE.GOOD)
    ELSE IF JsLe(percentDiff, threshold) THEN FromInt(METRIC_SCORE.FAIR)
    ELSE FromInt(METRIC_SCORE.POOR)

\* ScoreHigher with the Fair boundary taken as exclusive.
ScoreHigherExclusive(percentDiff, threshold) ==
    IF JsGe(percentDiff, threshold) THEN FromInt(METRIC_SCORE.EXCELLENT)
    ELSE IF JsGe(percentDiff, Zero) THEN FromInt(METRIC_SCORE.GOOD)
    ELSE IF JsGe(percentDiff, JsNeg(threshold)) /\ percentDiff # JsNeg(threshold)
    THEN FromInt(METRIC_SCORE.FAIR)
    ELSE FromInt(METRIC_SCORE.POOR)

\* The branch taken for rates and returns: higher is better.
ScoreHigher(percentDiff, threshold) ==
    IF JsGe(percentDiff, threshold) THEN FromInt(METRIC_SCORE.EXCELLENT)
    ELSE IF JsGe(percentDiff, Zero) THEN FromInt(METRIC_SCORE.GOOD)
    ELSE IF JsGe(percentDiff, JsNeg(threshold)) THEN FromInt(METRIC_SCORE.FAIR)
    ELSE FromInt(METRIC_SCORE.POOR)

\* BenchmarkGuard testing for the number zero only.
BenchmarkGuardZeroOnly(b) == IsZero(b)

\* !benchmark || benchmark === 0
BenchmarkGuard(b) == Not(b) \/ IsZero(b)

\* scoreMetric taking every metric as a cost, whatever lowerIsBetter is.
scoreMetricAlwaysLower(v, b, l, e) ==
    IF BenchmarkGuard(b)
    THEN FromInt(METRIC_SCORE.GOOD)
    ELSE ScoreLower(PercentDiff(v, b), Threshold(e))

scoreMetric(v, b, l, e) ==
    IF BenchmarkGuard(b)
    THEN FromInt(METRIC_SCORE.GOOD)
    ELSE IF l
         THEN ScoreLower(PercentDiff(v, b), Threshold(e))
         ELSE ScoreHigher(PercentDiff(v, b), Threshold(e))

----------------------------------------------------------------------------
(* calculateAverageMetric                                                   *)

\* The campaigns argument when it is an array.
Array(items) == [t |-> "array", items |-> items]

\* Engagement with the two campaign types exchanged.
EngagementSwapped(actuals, t) ==
    IF t = "Awareness" THEN actuals.leads ELSE actuals.clicks

\* campaignType === 'Awareness' ? actuals.clicks : actuals.leads
Engagement(actuals, t) == IF t = "Awareness" THEN actuals.clicks ELSE actuals.leads

\* CpmStep without its guard on impressions.
CpmStepUnguarded(acc, actuals) ==
    JsAdd(acc, JsMul(JsDiv(actuals.spend, actuals.impressions), FromInt(1000)))

\* CpmStep as a cost per impression, the factor 1000 left out.
CpmStepPerImpression(acc, actuals) ==
    IF Not(actuals.impressions) \/ IsZero(actuals.impressions) THEN acc
    ELSE JsAdd(acc, JsDiv(actuals.spend, actuals.impressions))

\* metric === 'cpm'
CpmStep(acc, actuals) ==
    IF Not(actuals.impressions) \/ IsZero(actuals.impressions) THEN acc
    ELSE JsAdd(acc, JsMul(JsDiv(actuals.spend, actuals.impressions),
                          FromInt(1000)))

\* metric === 'cpe'
CpeStep(acc, actuals, t) ==
    LET engagement == Engagement(actuals, t)
    IN  IF Not(engagement) \/ IsZero(engagement) THEN acc
        ELSE JsAdd(acc, JsDiv(actuals.spend, engagement))

\* RateStep guarding the engagement count instead of the impressions.
RateStepGuardsEngagement(acc, actuals, t) ==
    LET engagement == Engagement(actuals, t)
    IN  IF Not(engagement) \/ IsZero(engagement) THEN acc
        ELSE JsAdd(acc, JsMul(JsDiv(engagement, actuals.impressions),
                              FromInt(100)))

\* metric === 'rate'
RateStep(acc, actuals, t) ==
    IF Not(actuals.impressions) \/ IsZero(actuals.impressions) THEN acc
    ELSE LET engagement == Engagement(actuals, t)
         IN  JsAdd(acc, JsMul(JsDiv(engagement, actuals.impressions),
                              FromInt(100)))

\* RoasStep with the ratio inverted: spend over gross profit.
RoasStepInverted(acc, actuals) ==
    IF Not(actuals.spend) \/ IsZero(actuals.spend) THEN acc
    ELSE JsAdd(acc, JsDiv(actuals.spend, actuals.gp))

\* metric === 'roas'
RoasStep(acc, actuals) ==
    IF Not(actuals.spend) \/ IsZero(actuals.spend) THEN acc
    ELSE JsAdd(acc, JsDiv(actuals.gp, actuals.spend))

\* Reducer taking a metric it does not know as 'roas'.
ReducerDefaultRoas(acc, campaign, m, t) ==
    IF ~campaign.hasActuals THEN acc
    ELSE IF m = "cpm" THEN CpmStep(acc, campaign.actuals)
    ELSE IF m = "cpe" THEN CpeStep(acc, campaign.actuals, t)
    ELSE IF m = "rate" THEN RateStep(acc, campaign.actuals, t)
    ELSE RoasStep(acc, campaign.actuals)

\* The callback given to campaigns.reduce.
Reducer(acc, campaign, m, t) ==
    IF ~campaign.hasActuals THEN acc
    ELSE IF m = "cpm" THEN CpmStep(acc, campaign.actuals)
    ELSE IF m = "cpe" THEN CpeStep(acc, campaign.actuals, t)
    ELSE IF m = "rate" THEN RateStep(acc, campaign.actuals, t)
    ELSE IF m = "roas" THEN RoasStep(acc, campaign.actuals)
    ELSE acc

\* items.reduce(Reducer, 0), from the first element to the last.
RECURSIVE Reduce(_, _, _, _)
Reduce(acc, items, m, t) ==
    IF items = <<>> THEN acc
    ELSE Reduce(Reducer(acc, Head(items), m, t), Tail(items), m, t)

\* The number of records of items that have actuals.
RECURSIVE WithActuals(_)
WithActuals(items) ==
    IF items = <<>> THEN 0
    ELSE (IF Head(items).hasActuals THEN 1 ELSE 0) + WithActuals(Tail(items))

\* calculateAverageMetric without its test for an empty array.
calculateAverageMetricNoEmptyTest(cs, m, t) ==
    IF cs.t # "array" THEN Null
    ELSE JsDiv(Reduce(Zero, cs.items, m, t), FromInt(Len(cs.items)))

\* calculateAverageMetric averaging over the records that have actuals.
calculateAverageMetricOverActuals(cs, m, t) ==
    IF cs.t # "array" \/ Len(cs.items) = 0 THEN Null
    ELSE JsDiv(Reduce(Zero, cs.items, m, t), FromInt(WithActuals(cs.items)))

\* CohortAfter with the missing actuals fields of every record set to 0 in
\* place before they are read.
CohortAfterDefaults(cs) ==
    IF cs.t # "array" THEN cs
    ELSE Array([i \in DOMAIN cs.items |->
                  [cs.items[i] EXCEPT !.actuals =
                      [f \in DOMAIN @ |-> IF @[f] = Undefined THEN Zero ELSE @[f]]]])

\* The campaigns argument as the call leaves it: reduce does not change the
\* array it runs over, and the callback only reads campaign.actuals and its
\* fields, so the argument is left as it was.
CohortAfter(cs) == cs

calculateAverageMetric(cs, m, t) ==
    IF cs.t # "array" \/ Len(cs.items) = 0 THEN Null
    ELSE JsDiv(Reduce(Zero, cs.items, m, t), FromInt(Len(cs.items)))

----------------------------------------------------------------------------
(* The inputs of the calls                                                  *)

MaxCohort == 2

MaxValue == 26

MaxAvg == 90

\* A record with every field of actuals set.
FullActuals ==
    [spend |-> FromInt(500), impressions |-> FromInt(20000),
     clicks |-> FromInt(400), leads |-> FromInt(25), gp |-> FromInt(1500)]

NoActuals ==
    [spend |-> Undefined, impressions |-> Undefined, clicks |-> Undefined,
     leads |-> Undefined, gp |-> Undefined]

ActualsFields == {"spend", "impressions", "clicks", "leads", "gp"}

Campaign(type, actuals) == [type |-> type, hasActuals |-> TRUE, actuals |-> actuals]

\* The two Awareness records of the first concrete scenario.
Scenario1A ==
    Campaign("Awareness", [NoActuals EXCEPT !.spend = FromInt(1000),
                                            !.impressions = FromInt(100000),
                                            !.clicks = FromInt(2000)])

Scenario1B ==
    Campaign("Awareness", [NoActuals EXCEPT !.spend = FromInt(1200),
                                            !.impressions = FromInt(110000),
                                            !.clicks = FromInt(2100)])

\* A record whose actuals are not recorded yet.
WithoutActuals ==
    [type |-> "Conversion", hasActuals |-> FALSE, actuals |-> NoActuals]

\* The records a cohort is drawn from: for every metric and campaign type
\* they hold each combination of an absent, a zero and a positive numerator
\* with an absent, a zero and a positive denominator.
SampleCampaigns ==
    {Scenario1A, Scenario1B,
     WithoutActuals,
     Campaign("Conversion", FullActuals),
     Campaign("Conversion", NoActuals),
     Campaign("Awareness", [f \in ActualsFields |-> Zero]),
     Campaign("Awareness",
              [spend |-> Undefined, impressions |-> Zero, clicks |-> Undefined,
               leads |-> Undefined, gp |-> Zero]),
     Campaign("Conversion",
              [spend |-> Zero, impressions |-> Undefined, clicks |-> Zero,
               leads |-> Zero, gp |-> Undefined])}
    \cup {Campaign("Conversion", [FullActuals EXCEPT ![f] = v]) :
            f \in ActualsFields, v \in {Undefined, Zero}}

Cohorts ==
    {Null, Undefined}
    \cup UNION {{Array(c) : c \in [1..n -> SampleCampaigns]} : n \in 0..MaxCohort}

\* 'engagementRate' stands for every identifier the code does not know.
Metrics == {"cpm", "cpe", "rate", "roas", "engagementRate"}

CampaignTypes == {"Awareness", "Conversion"}

Values == {FromInt(v) : v \in 0..MaxValue} \cup {NaN, Undefined}

Benchmarks ==
    {Undefined, Null, NaN, Zero, FromInt(12), FromInt(20), FromInt(-20),
     Num(115, 11)}

\* Average scores in steps of 1/20, from below 1 to above 4.
AvgScores == {Num(k, 20) : k \in -MaxAvg..MaxAvg} \cup {NaN, Undefined, Null}

----------------------------------------------------------------------------
(* The calls                                                                *)

\* The state the constructor of ErrorBoundary sets.
ConstructedState ==
    [hasError |-> FALSE, error |-> Null, errorInfo |-> Null,
     isDetailsOpen |-> FALSE, isHoveringTryAgain |-> FALSE,
     isHoveringDashboard |-> FALSE]

\* The error boundary as it is mounted, its children rendered.
BoundaryMounted ==
    /\ state = ConstructedState
    /\ view = "children"
    /\ thrown = Undefined
    /\ keydown = ""

\* No plan is evaluated and the error boundary is left as it is mounted.
OthersAtRest ==
    /\ scores = <<>>
    /\ BoundaryMounted
    /\ development = FALSE

InitScoreMetric ==
    /\ op = "scoreMetric"
    /\ value \in Values
    /\ benchmark \in Benchmarks
    /\ lowerIsBetter \in BOOLEAN
    /\ isEngagement \in BOOLEAN
    /\ avgScore = Undefined
    /\ campaigns = Undefined
    /\ metric = ""
    /\ campaignType = ""

InitGetRecommendation ==
    /\ op = "getRecommendation"
    /\ avgScore \in AvgScores
    /\ value = Undefined
    /\ benchmark = Undefined
    /\ lowerIsBetter = FALSE
    /\ isEngagement = FALSE
    /\ campaigns = Undefined
    /\ metric = ""
    /\ campaignType = ""

InitCalculateAverageMetric ==
    /\ op = "calculateAverageMetric"
    /\ campaigns \in Cohorts
    /\ metric \in Metrics
    /\ campaignType \in CampaignTypes
    /\ value = Undefined
    /\ benchmark = Undefined
    /\ lowerIsBetter = FALSE
    /\ isEngagement = FALSE
    /\ avgScore = Undefined

Init ==
    /\ pc = "call"
    /\ result = Undefined
    /\ divided = FALSE
    /\ data = Undefined
    /\ tasks = <<>>
    /\ cells = <<>>
    /\ OthersAtRest
    /\ \/ InitScoreMetric
       \/ InitGetRecommendation
       \/ InitCalculateAverageMetric

CallScoreMetric ==
    /\ pc = "call"
    /\ op = "scoreMetric"
    /\ result' = scoreMetric(value, benchmark, lowerIsBetter, isEngagement)
    /\ divided' = ~BenchmarkGuard(benchmark)
    /\ pc' = "done"
    /\ UNCHANGED <<op, value, benchmark, lowerIsBetter, isEngagement, avgScore,
                   campaigns, metric, campaignType, data, tasks, cells,
                   scores, boundaryVars>>

CallGetRecommendation ==
    /\ pc = "call"
    /\ op = "getRecommendation"
    /\ result' = getRecommendation(avgScore)
    /\ pc' = "done"
    /\ UNCHANGED <<op, value, benchmark, lowerIsBetter, isEngagement, avgScore,
                   campaigns, metric, campaignType, divided, data, tasks, cells,
                   scores, boundaryVars>>

CallCalculateAverageMetric ==
    /\ pc = "call"
    /\ op = "calculateAverageMetric"
    /\ result' = calculateAverageMetric(campaigns, metric, campaignType)
    /\ campaigns' = CohortAfter(campaigns)
    /\ pc' = "done"
    /\ UNCHANGED <<op, value, benchmark, lowerIsBetter, isEngagement, avgScore,
                   metric, campaignType, divided, data, tasks, cells,
                   scores, boundaryVars>>

Next ==
    \/ CallScoreMetric
    \/ CallGetRecommendation
    \/ CallCalculateAverageMetric

Spec == Init /\ [][Next]_vars

----------------------------------------------------------------------------
(* Properties of scoreMetric                                                *)

\* A scoreMetric call has returned for a finite value and a finite non-zero
\* benchmark.
ScoredAgainstBenchmark ==
    /\ pc = "done"
    /\ op = "scoreMetric"
    /\ value.t = "num"
    /\ benchmark.t = "num"
    /\ benchmark.n # 0

\* percentDiff = (value - benchmark) / benchmark * 100 is the fraction
\* PctNum / PctDen of two integers, PctDen # 0 of either sign.
PctNum == 100 * (value.n * benchmark.d - benchmark.n * value.d)

PctDen == value.d * benchmark.n

\* percentDiff <= k and percentDiff >= k for an integer k, in integers.
PctAtMost(k) == IF PctDen > 0 THEN PctNum <= k * PctDen ELSE PctNum >= k * PctDen

PctAtLeast(k) == IF PctDen > 0 THEN PctNum >= k * PctDen ELSE PctNum <= k * PctDen

\* The band width the specification gives: 20 for engagement metrics, else 15.
BandWidth == IF isEngagement THEN 20 ELSE 15

\* C1: with lowerIsBetter = true and a non-zero benchmark, scoreMetric
\* returns 4 (Excellent) when percentDiff <= -threshold, 3 (Good) when
\* -threshold < percentDiff <= 0, 2 (Fair) when 0 < percentDiff <= threshold
\* and 1 (Poor) when percentDiff > threshold; scoreMetric(10, 12, true, false)
\* is 4 and scoreMetric(13, 12, true, false) is 2.
C1_LowerIsBetterBands ==
    /\ (ScoredAgainstBenchmark /\ lowerIsBetter) =>
          result = FromInt(IF PctAtMost(-BandWidth) THEN 4
                           ELSE IF PctAtMost(0) THEN 3
                           ELSE IF PctAtMost(BandWidth) THEN 2
                           ELSE 1)
    /\ (ScoredAgainstBenchmark /\ lowerIsBetter /\ ~isEngagement
        /\ benchmark = FromInt(12)) =>
          /\ value = FromInt(10) => result = FromInt(4)
          /\ value = FromInt(13) => result = FromInt(2)

\* A cost metric exactly 15 percent under its benchmark scored Excellent.
C1_Witness ==
    /\ ScoredAgainstBenchmark
    /\ lowerIsBetter
    /\ ~isEngagement
    /\ value = FromInt(17)
    /\ benchmark = FromInt(20)
    /\ result = FromInt(4)

\* C2: with lowerIsBetter = false and a non-zero benchmark, scoreMetric
\* returns Excellent when percentDiff >= threshold, otherwise Good when
\* percentDiff >= 0, otherwise Fair when percentDiff >= -threshold, otherwise
\* Poor.
C2_HigherIsBetterBands ==
    (ScoredAgainstBenchmark /\ ~lowerIsBetter) =>
        result = FromInt(IF PctAtLeast(BandWidth) THEN 4
                         ELSE IF PctAtLeast(0) THEN 3
                         ELSE IF PctAtLeast(-BandWidth) THEN 2
                         ELSE 1)

\* An engagement rate exactly 20 percent under its benchmark scored Fair.
C2_Witness ==
    /\ ScoredAgainstBenchmark
    /\ ~lowerIsBetter
    /\ isEngagement
    /\ value = FromInt(16)
    /\ benchmark = FromInt(20)
    /\ result = FromInt(2)

----------------------------------------------------------------------------
(* Properties of getRecommendation                                          *)

Recommended ==
    /\ pc = "done"
    /\ op = "getRecommendation"
    /\ avgScore.t = "num"

\* avgScore >= p / q for integers p and q > 0, in integers.
AvgAtLeast(p, q) == avgScore.n * q >= p * avgScore.d

\* C3: for every numeric averageScore, inside [1, 4] or not, getRecommendation
\* returns exactly one tier: Excellent from 3.5, Good from 2.75 up to 3.5,
\* Review from 2.0 up to 2.75 and Poor below 2.0; 3.6 is Excellent, 2.75 is
\* Good and 1.9 is Poor.
C3_RecommendationBands ==
    /\ Recommended =>
          /\ result = (IF AvgAtLeast(7, 2) THEN RECOMMENDATION_LEVELS.EXCELLENT
                       ELSE IF AvgAtLeast(11, 4) THEN RECOMMENDATION_LEVELS.GOOD
                       ELSE IF AvgAtLeast(2, 1) THEN RECOMMENDATION_LEVELS.REVIEW
                       ELSE RECOMMENDATION_LEVELS.POOR)
          /\ result.label =
                (IF AvgAtLeast(7, 2) THEN "Excellent Plan"
                 ELSE IF AvgAtLeast(11, 4) THEN "Good Plan"
                 ELSE IF AvgAtLeast(2, 1) THEN "Review Carefully"
                 ELSE "Consider Alternatives")
          /\ Cardinality({k \in DOMAIN RECOMMENDATION_LEVELS :
                            RECOMMENDATION_LEVELS[k] = result}) = 1
    /\ (Recommended /\ avgScore = Num(36, 10)) =>
          result = RECOMMENDATION_LEVELS.EXCELLENT
    /\ (Recommended /\ avgScore = Num(275, 100)) =>
          result = RECOMMENDATION_LEVELS.GOOD
    /\ (Recommended /\ avgScore = Num(19, 10)) =>
          result = RECOMMENDATION_LEVELS.POOR

\* The boundary 2.75 was rated Good.
C3_Witness ==
    /\ Recommended
    /\ avgScore = Num(275, 100)
    /\ result = RECOMMENDATION_LEVELS.GOOD

----------------------------------------------------------------------------
(* Properties of calculateAverageMetric                                     *)

\* A calculateAverageMetric call has returned for a non-empty cohort.
Averaged ==
    /\ pc = "done"
    /\ op = "calculateAverageMetric"
    /\ campaigns.t = "array"
    /\ Len(campaigns.items) > 0

\* A field that is missing or zero.
MissingOrZero(v) == v.t = "undefined" \/ (v.t = "num" /\ v.n = 0)

\* The engagement count of the specification: clicks for Awareness, leads
\* for Conversion.
EngagementOf(c) ==
    IF campaignType = "Awareness" THEN c.actuals.clicks ELSE c.actuals.leads

\* a / b * k for a field a, a non-zero field b and an integer k, as a
\* fraction of integers; not a number when a is missing.
Ratio(a, b, k) ==
    IF a.t = "undefined" THEN NaN ELSE Num(a.n * b.d * k, a.d * b.n)

\* The contributions the specification gives one record for each metric.
ExpectedCpm(c) ==
    IF ~c.hasActuals \/ MissingOrZero(c.actuals.impressions) THEN Zero
    ELSE Ratio(c.actuals.spend, c.actuals.impressions, 1000)

ExpectedCpe(c) ==
    IF ~c.hasActuals \/ MissingOrZero(EngagementOf(c)) THEN Zero
    ELSE Ratio(c.actuals.spend, EngagementOf(c), 1)

ExpectedRate(c) ==
    IF ~c.hasActuals \/ MissingOrZero(c.actuals.impressions) THEN Zero
    ELSE Ratio(EngagementOf(c), c.actuals.impressions, 100)

ExpectedRoas(c) ==
    IF ~c.hasActuals \/ MissingOrZero(c.actuals.spend) THEN Zero
    ELSE Ratio(c.actuals.gp, c.actuals.spend, 1)

\* The sum of F over the records of items, from the last record to the first.
RECURSIVE SumOver(_, _)
SumOver(F(_), items) ==
    IF items = <<>> THEN Zero
    ELSE JsAdd(F(items[Len(items)]), SumOver(F, SubSeq(items, 1, Len(items) - 1)))

\* The sum of F over the records divided by the number of records.
MeanOver(F(_), items) ==
    LET sum == SumOver(F, items)
    IN  IF sum.t = "num" THEN Num(sum.n, sum.d * Len(items)) ELSE sum

\* The record fails the guard of the requested metric, or has no actuals.
Skipped(c) ==
    \/ ~c.hasActuals
    \/ metric \in {"cpm", "rate"} /\ MissingOrZero(c.actuals.impressions)
    \/ metric = "cpe" /\ MissingOrZero(EngagementOf(c))
    \/ metric = "roas" /\ MissingOrZero(c.actuals.spend)

\* What the call's reducer adds to an empty sum for one record.
Contribution(c) == Reducer(Zero, c, metric, campaignType)

\* C4: calculateAverageMetric returns null when the cohort is empty, for
\* every metric and campaign type, and a value of type number, never null,
\* for every non-empty cohort.
C4_NullOnlyForEmptyCohort ==
    (pc = "done" /\ op = "calculateAverageMetric" /\ campaigns.t = "array") =>
        /\ Len(campaigns.items) = 0 => result = Null
        /\ Len(campaigns.items) > 0 =>
              /\ result # Null
              /\ result.t \in {"num", "nan", "inf"}

\* averageMetric([], 'roas', 'Conversion') returned null.
C4_Witness ==
    /\ pc = "done"
    /\ op = "calculateAverageMetric"
    /\ campaigns = Array(<<>>)
    /\ metric = "roas"
    /\ campaignType = "Conversion"
    /\ result = Null

\* C5: for a non-empty cohort the result is the sum of the records'
\* contributions divided by the number of records of the cohort; a record
\* that fails its guard or has no actuals contributes 0 and still counts in
\* the divisor.
C5_SumDividedByCohortLength ==
    Averaged =>
        /\ result = MeanOver(Contribution, campaigns.items)
        /\ \A i \in DOMAIN campaigns.items :
              Skipped(campaigns.items[i]) => Contribution(campaigns.items[i]) = Zero

\* A record with a cpm of 25 averaged with a record without actuals gave 12.5.
C5_Witness ==
    /\ Averaged
    /\ campaigns = Array(<<Campaign("Conversion", FullActuals), WithoutActuals>>)
    /\ metric = "cpm"
    /\ result = Num(25, 2)

\* C6: for a non-empty cohort in which every record fails the guard of the
\* requested metric the result is 0, not null, for each of the four metrics
\* and both campaign types.
C6_AllSkippedGivesZero ==
    (/\ Averaged
     /\ metric \in {"cpm", "cpe", "rate", "roas"}
     /\ \A i \in DOMAIN campaigns.items : Skipped(campaigns.items[i])) =>
        result = Zero

\* Two records, one of them with actuals, both without clicks: cpe is 0.
C6_Witness ==
    /\ Averaged
    /\ Len(campaigns.items) = 2
    /\ \A i \in DOMAIN campaigns.items : Skipped(campaigns.items[i])
    /\ \E i \in DOMAIN campaigns.items : campaigns.items[i].hasActuals
    /\ metric = "cpe"
    /\ campaignType = "Awareness"
    /\ result = Zero

\* C7: for cpm every record contributes spend / impressions * 1000, and 0
\* exactly when its impressions are missing or zero; the cohort of the first
\* scenario gives the mean of 10 and 1200000 / 110000, which is 115 / 11.
C7_CpmContribution ==
    /\ (Averaged /\ metric = "cpm") =>
          result = MeanOver(ExpectedCpm, campaigns.items)
    /\ (Averaged /\ metric = "cpm"
        /\ campaigns = Array(<<Scenario1A, Scenario1B>>)) =>
          result = Num(115, 11)

\* The first concrete scenario was computed.
C7_Witness ==
    /\ Averaged
    /\ metric = "cpm"
    /\ campaignType = "Awareness"
    /\ campaigns = Array(<<Scenario1A, Scenario1B>>)
    /\ result = Num(115, 11)

\* C8: for cpe every record contributes spend / engagement, engagement being
\* its clicks for Awareness and its leads for Conversion, and 0 exactly when
\* that engagement field is missing or zero.
C8_CpeContribution ==
    (Averaged /\ metric = "cpe") =>
        result = MeanOver(ExpectedCpe, campaigns.items)

\* A Conversion cohort: 500 spent for 25 leads (and 400 clicks) is 20 a lead.
C8_Witness ==
    /\ Averaged
    /\ metric = "cpe"
    /\ campaignType = "Conversion"
    /\ campaigns = Array(<<Campaign("Conversion", FullActuals)>>)
    /\ result = FromInt(20)

\* C9: for rate every record contributes engagement / impressions * 100,
\* engagement chosen by the campaign type, and 0 exactly when its impressions
\* are missing or zero.
C9_RateContribution ==
    (Averaged /\ metric = "rate") =>
        result = MeanOver(ExpectedRate, campaigns.items)

\* An Awareness cohort: 2000 clicks on 100000 impressions and a record
\* without impressions average to a rate of 1.
C9_Witness ==
    /\ Averaged
    /\ metric = "rate"
    /\ campaignType = "Awareness"
    /\ campaigns.items[1] = Scenario1A
    /\ Len(campaigns.items) = 2
    /\ campaigns.items[2].hasActuals
    /\ MissingOrZero(campaigns.items[2].actuals.impressions)
    /\ result = FromInt(1)

\* C10: for roas every record contributes gross profit / spend, and 0
\* exactly when its spend is missing or zero.
C10_RoasContribution ==
    (Averaged /\ metric = "roas") =>
        result = MeanOver(ExpectedRoas, campaigns.items)

\* A gross profit of 1500 on a spend of 500 and a record without spend
\* average to a return of 1.5.
C10_Witness ==
    /\ Averaged
    /\ metric = "roas"
    /\ Len(campaigns.items) = 2
    /\ campaigns.items[1] = Campaign("Conversion", FullActuals)
    /\ campaigns.items[2].hasActuals
    /\ MissingOrZero(campaigns.items[2].actuals.spend)
    /\ result = Num(3, 2)

\* A field that is absent or a finite non-negative number.
AbsentOrFiniteNonNegative(v) == v.t = "undefined" \/ (v.t = "num" /\ v.n >= 0)

\* Every actuals field of every record of the cohort is absent or a finite
\* non-negative number.
WellTypedCohort ==
    /\ campaigns.t = "array"
    /\ \A i \in DOMAIN campaigns.items :
          \A f \in ActualsFields :
              AbsentOrFiniteNonNegative(campaigns.items[i].actuals[f])

\* C11: for every cohort whose actuals fields are absent or finite
\* non-negative numbers, and every metric and campaign type,
\* calculateAverageMetric returns null or a finite number, never NaN or an
\* infinity.
C11_ResultNullOrFinite ==
    (pc = "done" /\ op = "calculateAverageMetric" /\ WellTypedCohort) =>
        result.t \in {"null", "num"}

----------------------------------------------------------------------------
(* Further properties of scoreMetric                                        *)

\* C12: scoreMetric returns 3 (Good) whenever the benchmark is null, absent
\* or zero, for every value, lowerIsBetter and isEngagement, and does not go
\* on to divide by the benchmark.
C12_NoBenchmarkIsGood ==
    (/\ pc = "done"
     /\ op = "scoreMetric"
     /\ benchmark \in {Null, Undefined, Zero}) =>
        /\ result = FromInt(3)
        /\ ~divided

\* A cost metric scored against a null benchmark: Good, and no division.
C12_Witness ==
    /\ pc = "done"
    /\ op = "scoreMetric"
    /\ benchmark = Null
    /\ value = FromInt(5)
    /\ lowerIsBetter
    /\ result = FromInt(3)
    /\ ~divided

\* percentDiff = k, k < percentDiff < m, in integers.
PctIs(k) == PctAtMost(k) /\ PctAtLeast(k)

PctBetween(k, m) == ~PctAtMost(k) /\ ~PctAtLeast(m)

Band(s) ==
    IF lowerIsBetter
    THEN CASE s = 4 -> PctAtMost(-BandWidth)
           [] s = 3 -> ~PctAtMost(-BandWidth) /\ PctAtMost(0)
           [] s = 2 -> ~PctAtMost(0) /\ PctAtMost(BandWidth)
           [] s = 1 -> ~PctAtMost(BandWidth)
    ELSE CASE s = 4 -> PctAtLeast(BandWidth)
           [] s = 3 -> ~PctAtLeast(BandWidth) /\ PctAtLeast(0)
           [] s = 2 -> ~PctAtLeast(0) /\ PctAtLeast(-BandWidth)
           [] s = 1 -> ~PctAtLeast(-BandWidth)

\* C14: for every finite percentDiff, lowerIsBetter and isEngagement exactly
\* one of the four bands matches, and scoreMetric returns exactly one value
\* of {1, 2, 3, 4}, the score of that band.
C14_BandsPartition ==
    ScoredAgainstBenchmark =>
        /\ Cardinality({s \in 1..4 : Band(s)}) = 1
        /\ result \in {FromInt(s) : s \in 1..4}
        /\ {s \in 1..4 : Band(s)} = {s \in 1..4 : result = FromInt(s)}

\* A rate 25 percent under its benchmark fell in the Poor band only.
C14_Witness ==
    /\ ScoredAgainstBenchmark
    /\ ~lowerIsBetter
    /\ ~isEngagement
    /\ value = FromInt(15)
    /\ benchmark = FromInt(20)
    /\ {s \in 1..4 : Band(s)} = {1}
    /\ result = FromInt(1)

\* C15 as stated: a percentDiff exactly on a band boundary is assigned to
\* the band on the side nearer zero, so -threshold and +threshold both go to
\* the inner band (at 0 either neighbour is as near).
C15_BoundaryToBandNearerZero ==
    ScoredAgainstBenchmark =>
        /\ PctIs(-BandWidth) => result = FromInt(IF lowerIsBetter THEN 3 ELSE 2)
        /\ PctIs(BandWidth) => result = FromInt(IF lowerIsBetter THEN 2 ELSE 3)
        /\ PctIs(0) => result \in {FromInt(3), FromInt(2)}

\* C15 as amended: a percentDiff exactly on a band boundary is assigned to
\* the better of the two bands the boundary separates: the favourable
\* threshold scores Excellent, 0 scores Good and the unfavourable threshold
\* scores Fair, for both values of lowerIsBetter.
C15_BoundaryToBetterBand ==
    ScoredAgainstBenchmark =>
        /\ PctIs(-BandWidth) => result = FromInt(IF lowerIsBetter THEN 4 ELSE 2)
        /\ PctIs(BandWidth) => result = FromInt(IF lowerIsBetter THEN 2 ELSE 4)
        /\ PctIs(0) => result = FromInt(3)

\* An engagement cost exactly 20 percent under its benchmark scored
\* Excellent, the outer band.
C15_Witness ==
    /\ ScoredAgainstBenchmark
    /\ lowerIsBetter
    /\ isEngagement
    /\ value = FromInt(16)
    /\ benchmark = FromInt(20)
    /\ PctIs(-BandWidth)
    /\ result = FromInt(4)

----------------------------------------------------------------------------
(* Further properties of getRecommendation                                  *)

\* The rank of a tier: Poor < Review < Good < Excellent.
TierRank(tier) ==
    CASE tier.label = "Consider Alternatives" -> 1
      [] tier.label = "Review Carefully"      -> 2
      [] tier.label = "Good Plan"             -> 3
      [] tier.label = "Excellent Plan"        -> 4

\* C16: getRecommendation is monotonic non-decreasing: whenever the average
\* score of the call is at most another number, the rank of its tier is at
\* most the rank of the tier of that number.
C16_RecommendationMonotonic ==
    Recommended =>
        \A avg2 \in AvgScores :
            (avg2.t = "num" /\ avgScore.n * avg2.d <= avg2.n * avgScore.d) =>
                TierRank(result) <= TierRank(getRecommendation(avg2))

\* 2.8 was rated Good, below the Excellent of 3.5 and above the Review of 2.7.
C16_Witness ==
    /\ Recommended
    /\ avgScore = Num(28, 10)
    /\ TierRank(result) = 3
    /\ TierRank(getRecommendation(Num(35, 10))) = 4
    /\ TierRank(getRecommendation(Num(27, 10))) = 2

----------------------------------------------------------------------------
(* Interleaved calls                                                        *)
(*                                                                          *)
(* Two tasks call the engine again and again.  A call of                    *)
(* calculateAverageMetric is split at every iteration of its reduce, so the *)
(* steps of the two tasks interleave in every order; the accumulator of a   *)
(* reduce is a cell of its own invocation.                                  *)

MaxTaskCohort == 2

Tasks == {1, 2}

\* AccCell with one accumulator kept at module level for every invocation.
AccCellShared(t) == 1

\* The cell holding acc, the accumulator parameter of the reduce callback,
\* for the invocation running in task t: a parameter is local to its call,
\* so every task has a cell of its own.
AccCell(t) == t

NoCall ==
    [op |-> "none", value |-> Undefined, benchmark |-> Undefined,
     lowerIsBetter |-> FALSE, isEngagement |-> FALSE, avgScore |-> Undefined,
     campaigns |-> Undefined, metric |-> "", campaignType |-> ""]

TaskCampaigns == {Campaign("Conversion", FullActuals), Scenario1A}

TaskCohorts ==
    UNION {{Array(c) : c \in [1..n -> TaskCampaigns]} : n \in 0..MaxTaskCohort}

\* The calls a task makes.
TaskCalls ==
    {[NoCall EXCEPT !.op = "calculateAverageMetric", !.campaigns = c,
                    !.metric = m, !.campaignType = "Awareness"] :
        c \in TaskCohorts, m \in {"cpm", "roas"}}
    \cup {[NoCall EXCEPT !.op = "scoreMetric", !.value = FromInt(v),
                         !.benchmark = b, !.lowerIsBetter = TRUE] :
            v \in {10, 13}, b \in {FromInt(12), Null}}
    \cup {[NoCall EXCEPT !.op = "getRecommendation", !.avgScore = a] :
            a \in {Num(36, 10), Num(275, 100), Num(19, 10)}}

IdleTask == [pc |-> "idle", call |-> NoCall, i |-> 0, ret |-> Undefined]

InitTasks ==
    /\ tasks = [t \in Tasks |-> IdleTask]
    /\ cells = [c \in Tasks |-> Undefined]
    /\ pc = "idle"
    /\ op = "none"
    /\ value = Undefined
    /\ benchmark = Undefined
    /\ lowerIsBetter = FALSE
    /\ isEngagement = FALSE
    /\ avgScore = Undefined
    /\ campaigns = Undefined
    /\ metric = ""
    /\ campaignType = ""
    /\ result = Undefined
    /\ divided = FALSE
    /\ data = Undefined
    /\ OthersAtRest

engineVars ==
    <<pc, op, value, benchmark, lowerIsBetter, isEngagement, avgScore,
      campaigns, metric, campaignType, result, divided, data, scores,
      boundaryVars>>

\* Task t, idle or returned from its last call, makes the call c.
Invoke(t, c) ==
    /\ tasks[t].pc \in {"idle", "done"}
    /\ tasks' = [tasks EXCEPT ![t] = [pc |-> "entered", call |-> c, i |-> 0,
                                      ret |-> Undefined]]
    /\ UNCHANGED <<cells, engineVars>>

\* calculateAverageMetric: the test for an empty cohort, then reduce starts
\* from the initial value 0.
AverageEnter(t) ==
    LET c == tasks[t].call
    IN  /\ tasks[t].pc = "entered"
        /\ c.op = "calculateAverageMetric"
        /\ IF c.campaigns.t # "array" \/ Len(c.campaigns.items) = 0
           THEN /\ tasks' = [tasks EXCEPT ![t].pc = "done", ![t].ret = Null]
                /\ UNCHANGED cells
           ELSE /\ tasks' = [tasks EXCEPT ![t].pc = "reduce", ![t].i = 1]
                /\ cells' = [cells EXCEPT ![AccCell(t)] = Zero]
        /\ UNCHANGED engineVars

\* calculateAverageMetric: one call of the reduce callback.
AverageReduce(t) ==
    LET c == tasks[t].call
        i == tasks[t].i
    IN  /\ tasks[t].pc = "reduce"
        /\ cells' = [cells EXCEPT ![AccCell(t)] =
                        Reducer(cells[AccCell(t)], c.campaigns.items[i],
                                c.metric, c.campaignType)]
        /\ tasks' = [tasks EXCEPT
                        ![t].i = i + 1,
                        ![t].pc = IF i = Len(c.campaigns.items)
                                  THEN "reduced" ELSE "reduce"]
        /\ UNCHANGED engineVars

\* calculateAverageMetric: return sum / campaigns.length.
AverageReturn(t) ==
    LET c == tasks[t].call
    IN  /\ tasks[t].pc = "reduced"
        /\ tasks' = [tasks EXCEPT
                        ![t].pc = "done",
                        ![t].i = 0,
                        ![t].ret = JsDiv(cells[AccCell(t)],
                                         FromInt(Len(c.campaigns.items)))]
        /\ cells' = [cells EXCEPT ![AccCell(t)] = Undefined]
        /\ UNCHANGED engineVars

\* scoreMetric: straight-line code over its parameters and the constants.
ScoreRun(t) ==
    LET c == tasks[t].call
    IN  /\ tasks[t].pc = "entered"
        /\ c.op = "scoreMetric"
        /\ tasks' = [tasks EXCEPT
                        ![t].pc = "done",
                        ![t].ret = scoreMetric(c.value, c.benchmark,
                                               c.lowerIsBetter, c.isEngagement)]
        /\ UNCHANGED <<cells, engineVars>>

\* getRecommendation: straight-line code over its parameter and the constants.
RecommendRun(t) ==
    LET c == tasks[t].call
    IN  /\ tasks[t].pc = "entered"
        /\ c.op = "getRecommendation"
        /\ tasks' = [tasks EXCEPT ![t].pc = "done",
                                  ![t].ret = getRecommendation(c.avgScore)]
        /\ UNCHANGED <<cells, engineVars>>

NextTasks ==
    \E t \in Tasks :
        \/ \E c \in TaskCalls : Invoke(t, c)
        \/ AverageEnter(t)
        \/ AverageReduce(t)
        \/ AverageReturn(t)
        \/ ScoreRun(t)
        \/ RecommendRun(t)

SpecTasks == InitTasks /\ [][NextTasks]_vars

\* The value the function of call c gives for the arguments of c alone.
ValueOf(c) ==
    CASE c.op = "calculateAverageMetric" ->
            calculateAverageMetric(c.campaigns, c.metric, c.campaignType)
      [] c.op = "scoreMetric" ->
            scoreMetric(c.value, c.benchmark, c.lowerIsBetter, c.isEngagement)
      [] c.op = "getRecommendation" -> getRecommendation(c.avgScore)

\* C17: the result of every call depends on its arguments only: whatever
\* the task did before and whatever the other task does in between, a
\* returned call has the value of its function for its arguments, and two
\* returned calls with identical arguments have identical results.
C17_ResultDependsOnArgumentsOnly ==
    /\ \A t \in Tasks :
          tasks[t].pc = "done" => tasks[t].ret = ValueOf(tasks[t].call)
    /\ \A t, u \in Tasks :
          (/\ tasks[t].pc = "done"
           /\ tasks[u].pc = "done"
           /\ tasks[t].call = tasks[u].call) =>
              tasks[t].ret = tasks[u].ret

\* Task 1 returned the first scenario's cpm while task 2 was in the middle
\* of the reduce of another cohort.
C17_Witness ==
    /\ tasks[1].pc = "done"
    /\ tasks[1].call.op = "calculateAverageMetric"
    /\ tasks[1].call.metric = "cpm"
    /\ tasks[1].call.campaigns = Array(<<Scenario1A, Scenario1A>>)
    /\ tasks[1].ret = FromInt(10)
    /\ tasks[2].pc = "reduce"
    /\ tasks[2].i = 2
    /\ tasks[2].call.campaigns # tasks[1].call.campaigns

----------------------------------------------------------------------------
(* Further properties of calculateAverageMetric                             *)

\* C18: calculateAverageMetric leaves its input unchanged: the step of the
\* call keeps the cohort's records, their order, and the type and actuals
\* fields of every record as they were before the call.
C18_CohortUnchanged ==
    [][(pc = "call" /\ op = "calculateAverageMetric") =>
          /\ campaigns' = campaigns
          /\ campaigns.t = "array" =>
                /\ Len(campaigns'.items) = Len(campaigns.items)
                /\ \A i \in DOMAIN campaigns.items :
                      /\ campaigns'.items[i].type = campaigns.items[i].type
                      /\ campaigns'.items[i].actuals = campaigns.items[i].actuals]_vars

\* The call returned for a record without clicks followed by one without
\* actuals, and the cohort still holds them in that order.
C18_Witness ==
    /\ Averaged
    /\ metric = "rate"
    /\ campaigns =
          Array(<<Campaign("Conversion", [FullActuals EXCEPT !.clicks = Undefined]),
                  WithoutActuals>>)
    /\ result = Num(1, 16)

----------------------------------------------------------------------------
(* scoreMetric and getRecommendation on arguments that are not numbers      *)

\* NaN, undefined or null, the arguments that are not numbers.
NotNumeric(v) == v.t \in {"nan", "undefined", "null"}

ScoreValues == {FromInt(s) : s \in 1..4}

TierValues == {RECOMMENDATION_LEVELS[k] : k \in DOMAIN RECOMMENDATION_LEVELS}

\* C19 as stated: for numeric arguments scoreMetric and getRecommendation
\* return a score or a tier, and when an argument is NaN or not numeric the
\* value they return is undefined or NaN.
C19_NotNumericGivesUndefinedOrNaN ==
    /\ (pc = "done" /\ op = "scoreMetric") =>
          IF NotNumeric(value) \/ NotNumeric(benchmark)
          THEN result \in {Undefined, NaN}
          ELSE result \in ScoreValues
    /\ (pc = "done" /\ op = "getRecommendation") =>
          IF NotNumeric(avgScore)
          THEN result \in {Undefined, NaN}
          ELSE result \in TierValues

\* C19 as amended: scoreMetric and getRecommendation return a score or a
\* tier for every argument that is a number, NaN, undefined or null:
\* scoreMetric returns Good when the benchmark is NaN, undefined or null and
\* Poor when the value is NaN or undefined against a non-zero benchmark;
\* getRecommendation returns the Poor tier when the average is NaN,
\* undefined or null.
C19_NotNumericGivesScoreOrTier ==
    /\ (pc = "done" /\ op = "scoreMetric") =>
          /\ result \in ScoreValues
          /\ NotNumeric(benchmark) => result = FromInt(3)
          /\ (NotNumeric(value) /\ benchmark.t = "num" /\ benchmark.n # 0) =>
                result = FromInt(1)
    /\ (pc = "done" /\ op = "getRecommendation") =>
          /\ result \in TierValues
          /\ NotNumeric(avgScore) => result.label = "Consider Alternatives"

\* A NaN rate scored against the benchmark 12 came out Poor.
C19_Witness ==
    /\ pc = "done"
    /\ op = "scoreMetric"
    /\ value = NaN
    /\ benchmark = FromInt(12)
    /\ ~lowerIsBetter
    /\ result = FromInt(1)

----------------------------------------------------------------------------
(* validateCampaign                                                         *)

\* An object with the properties fields.
Object(fields) == [t |-> "object", fields |-> fields]

Awareness == Str(<<"A", "w", "a", "r", "e", "n", "e", "s", "s">>)

Conversion == Str(<<"C", "o", "n", "v", "e", "r", "s", "i", "o", "n">>)

validProviders ==
    {Str(<<"C", "a", "r", "w", "o", "w">>),
     Str(<<"A", "u", "t", "o", "t", "r", "a", "d", "e", "r">>),
     Str(<<"L", "e", "a", "s", "i", "n", "g", ".", "c", "o", "m">>),
     Str(<<"W", "h", "a", "t", "C", "a", "r", "?">>),
     Str(<<"P", "i", "s", "t", "o", "n", "H", "e", "a", "d", "s">>),
     Str(<<"A", "u", "t", "o", "E", "x", "p", "r", "e", "s", "s">>)}

\* /^\d{4}-\d{2}$/.test(s)
MonthPattern(s) ==
    /\ Len(s) = 7
    /\ \A i \in {1, 2, 3, 4, 6, 7} : IsDigit(s[i])
    /\ s[5] = "-"

\* errors[key] = message
Put(errors, key, message) ==
    [k \in DOMAIN errors \cup {key} |-> IF k = key THEN message ELSE errors[k]]

\* const errors = {}
NoErrors == [k \in {} |-> ""]

\* What a call gives back: the object it returns, or the error it throws.
Returned(errors) ==
    [threw |-> FALSE, isValid |-> DOMAIN errors = {}, errors |-> errors]

Thrown == [threw |-> TRUE, isValid |-> FALSE, errors |-> NoErrors]

\* typeof v !== 'number' || v < 0
NotNumberOrNegative(v) == ~IsNumber(v) \/ JsLt(v, Zero)

\* The name checks.
NameErrors(d, e) ==
    LET e1 == IF Not(d.name) \/ Len(Trim(d.name.s)) < 3
              THEN Put(e, "name", "Campaign name must be at least 3 characters")
              ELSE e
    IN  IF ~Not(d.name) /\ Len(d.name.s) > 200
        THEN Put(e1, "name", "Campaign name must be less than 200 characters")
        ELSE e1

\* The month, type and provider checks.
HeaderErrors(d, e) ==
    LET e1 == IF Not(d.month) \/ ~MonthPattern(d.month.s)
              THEN Put(e, "month", "Invalid month format. Use YYYY-MM")
              ELSE e
        e2 == IF d.type \notin {Conversion, Awareness}
              THEN Put(e1, "type",
                       "Type must be either 'Conversion' or 'Awareness'")
              ELSE e1
    IN  IF d.provider \notin validProviders
        THEN Put(e2, "provider", "Invalid provider")
        ELSE e2

\* The plan checks.  The message of the spend limit is written without the
\* pound sign before 1,000,000 that the source has.
PlanErrors(d, e) ==
    IF Not(d.plan) THEN e
    ELSE
    LET plan == d.plan.fields
        e1 == IF NotNumberOrNegative(plan.spend)
              THEN Put(e, "spend", "Spend must be a positive number")
              ELSE e
        e2 == IF JsGt(plan.spend, FromInt(1000000))
              THEN Put(e1, "spend", "Spend cannot exceed 1,000,000 per campaign")
              ELSE e1
        e3 == IF NotNumberOrNegative(plan.impressions)
              THEN Put(e2, "impressions", "Impressions must be a positive number")
              ELSE e2
        e4 == IF JsGt(plan.impressions, FromInt(100000000))
              THEN Put(e3, "impressions", "Impressions seem unrealistically high")
              ELSE e3
        e5 == IF d.type = Awareness /\ NotNumberOrNegative(plan.clicks)
              THEN Put(e4, "clicks",
                       "Clicks must be a positive number for Awareness campaigns")
              ELSE e4
    IN  IF d.type = Conversion /\ NotNumberOrNegative(plan.leads)
        THEN Put(e5, "leads",
                 "Leads must be a positive number for Conversion campaigns")
        ELSE e5

\* The actuals checks.
ActualsErrors(d, e) ==
    IF Not(d.actuals) THEN e
    ELSE
    LET actuals == d.actuals.fields
        e1 == IF NotNumberOrNegative(actuals.spend)
              THEN Put(e, "actualSpend", "Actual spend must be a positive number")
              ELSE e
        e2 == IF NotNumberOrNegative(actuals.impressions)
              THEN Put(e1, "actualImpressions",
                       "Actual impressions must be a positive number")
              ELSE e1
        e3 == IF d.type = Conversion /\ NotNumberOrNegative(actuals.sales)
              THEN Put(e2, "sales", "Sales must be a positive number")
              ELSE e2
    IN  IF d.type = Conversion /\ NotNumberOrNegative(actuals.gp)
        THEN Put(e3, "gp", "Gross profit must be a positive number")
        ELSE e3

\* data.name.trim() throws a TypeError when data.name is neither falsy nor a
\* string: a number has no method trim.
NameThrows(d) == ~Not(d.name) /\ d.name.t # "str"

validateCampaign(d) ==
    IF NameThrows(d) THEN Thrown
    ELSE Returned(ActualsErrors(d, PlanErrors(d, HeaderErrors(d,
                    NameErrors(d, NoErrors)))))

----------------------------------------------------------------------------
(* The inputs and the call of validateCampaign                              *)

MaxDeviations == 2

\* The values a numeric field is given: absent, negative, zero, positive,
\* over the plan's limits, NaN, Infinity and a string.
FieldValues ==
    {Undefined, FromInt(-1), Zero, FromInt(100), FromInt(2000000),
     FromInt(200000000), NaN, Infinity(1), Str(<<"a">>)}

PlanFields == {"spend", "impressions", "clicks", "leads"}

CampaignActualsFields == {"spend", "impressions", "clicks", "leads", "sales", "gp"}

\* The objects over fields that differ from 'every field is 100' in at most
\* MaxDeviations fields.
Variants(fields) ==
    UNION {{Object([f \in fields |-> IF f \in D THEN g[f] ELSE FromInt(100)]) :
              g \in [D -> FieldValues]} :
           D \in {D \in SUBSET fields : Cardinality(D) <= MaxDeviations}}

ValidData ==
    [name |-> Str(<<"V", "6", "0">>),
     month |-> Str(<<"2", "0", "2", "4", "-", "0", "1">>),
     type |-> Awareness,
     provider |-> Str(<<"C", "a", "r", "w", "o", "w">>),
     plan |-> Undefined,
     actuals |-> Undefined]

\* The campaign objects given to validateCampaign: every header with and
\* without a plain plan and plain actuals, and every plan and every actuals
\* under a valid header of either type.
CampaignData ==
    LET \* A name of 201 characters.
        OverLongName == Str([i \in 1..201 |-> "x"])
        Names ==
            {Undefined, FromInt(7), Str(<<>>), Str(<<"a", "b">>),
             Str(<<" ", "a", "b", " ">>), Str(<<"V", "6", "0">>), OverLongName}
        Months ==
            {Undefined, Str(<<"2", "0", "2", "4", "-", "0", "1">>),
             Str(<<"2", "0", "2", "4", "-", "1">>),
             Str(<<"2", "0", "2", "4", "/", "0", "1">>)}
        Types == {Undefined, Awareness, Conversion,
                  Str(<<"a", "w", "a", "r", "e", "n", "e", "s", "s">>)}
        Providers == validProviders \cup {Undefined, Str(<<"O", "t", "h", "e", "r">>)}
    IN
    {[name |-> n, month |-> m, type |-> t, provider |-> p, plan |-> pl,
      actuals |-> a] :
        n \in Names, m \in Months, t \in Types, p \in Providers,
        pl \in {Undefined, Object([f \in PlanFields |-> FromInt(100)])},
        a \in {Undefined, Object([f \in CampaignActualsFields |-> FromInt(100)])}}
    \cup {[ValidData EXCEPT !.type = t, !.plan = pl] :
            t \in {Awareness, Conversion}, pl \in Variants(PlanFields)}
    \cup {[ValidData EXCEPT !.type = t, !.actuals = a] :
            t \in {Awareness, Conversion}, a \in Variants(CampaignActualsFields)}

----------------------------------------------------------------------------
(* validateConfig                                                           *)

\* Math.abs(a)
JsAbs(a0) ==
    LET a == ToNumber(a0)
    IN  CASE a.t = "nan" -> NaN
          [] a.t = "inf" -> Infinity(1)
          [] OTHER -> Num(Abs(a.n), a.d)

quarters == <<"q1", "q2", "q3", "q4">>

\* data.fiscalLabel.trim() throws a TypeError when data.fiscalLabel is neither
\* falsy nor a string.
FiscalLabelThrows(d) == ~Not(d.fiscalLabel) /\ d.fiscalLabel.t # "str"

\* The fiscal label check.
FiscalLabelErrors(d, e) ==
    IF Not(d.fiscalLabel) \/ Len(Trim(d.fiscalLabel.s)) < 2
    THEN Put(e, "fiscalLabel", "Fiscal label is required")
    ELSE e

\* The annual budget checks.  The message of the limit is written without
\* the pound sign before 10,000,000 that the source has.
AnnualBudgetErrors(d, e) ==
    LET e1 == IF ~IsNumber(d.annualBudget) \/ JsLe(d.annualBudget, Zero)
              THEN Put(e, "annualBudget",
                       "Annual budget must be a positive number")
              ELSE e
    IN  IF JsGt(d.annualBudget, FromInt(10000000))
        THEN Put(e1, "annualBudget", "Annual budget cannot exceed 10,000,000")
        ELSE e1

\* The check of each quarter, in the order of quarters.
RECURSIVE QuarterErrors(_, _, _)
QuarterErrors(d, e, i) ==
    LET \* q.toUpperCase()
        QuarterUpperCase(q) ==
            CASE q = "q1" -> "Q1" [] q = "q2" -> "Q2" [] q = "q3" -> "Q3" [] q = "q4" -> "Q4"
    IN
    IF i > Len(quarters) THEN e
    ELSE LET q == quarters[i]
         IN  QuarterErrors(d,
                 IF NotNumberOrNegative(d[q])
                 THEN Put(e, q, QuarterUpperCase(q) \o
                                " budget must be a positive number")
                 ELSE e,
                 i + 1)

\* The quarter-sum check is made for annualBudget >= 0.
BudgetGuardNonNegative(d) == JsGe(d.annualBudget, Zero)

\* data.annualBudget > 0: the guard of the quarter-sum check.
BudgetGuard(d) == JsGt(d.annualBudget, Zero)

\* data.q1 + data.q2 + data.q3 + data.q4, for quarters that are not strings
\* (a string operand would make + a concatenation).
QuarterSum(d) == JsAdd(JsAdd(JsAdd(d.q1, d.q2), d.q3), d.q4)

Variance(d) ==
    JsDiv(JsAbs(JsSub(QuarterSum(d), d.annualBudget)), d.annualBudget)

\* The literal 0.01 of the variance test.
VarianceTolerance == Num(1, 100)

\* The quarter-sum check.
QuarterSumErrors(d, e) ==
    IF BudgetGuard(d) /\ JsGt(Variance(d), VarianceTolerance)
    THEN Put(e, "quarters", "Quarterly budgets should sum to annual budget")
    ELSE e

validateConfig(d) ==
    IF FiscalLabelThrows(d) THEN Thrown
    ELSE Returned(QuarterSumErrors(d, QuarterErrors(d,
                    AnnualBudgetErrors(d, FiscalLabelErrors(d, NoErrors)), 1)))

----------------------------------------------------------------------------
(* The inputs of validateConfig                                             *)

MaxQuarter == 27

AnnualBudgets ==
    {Undefined, NaN, FromInt(-100), Zero, FromInt(100), FromInt(10000000),
     FromInt(10000001), Infinity(1), Str(<<"1", "0", "0">>)}

\* The values of a quarter: absent, NaN, negative, zero, and the numbers
\* about a quarter of an annual budget of 100.
QuarterValues ==
    {Undefined, NaN, FromInt(-1), Zero} \cup
    {FromInt(k) : k \in (MaxQuarter - 4)..MaxQuarter}

ValidConfig ==
    [fiscalLabel |-> Str(<<"F", "Y", "2", "5">>), annualBudget |-> FromInt(100),
     q1 |-> FromInt(25), q2 |-> FromInt(25), q3 |-> FromInt(25),
     q4 |-> FromInt(25)]

\* The config objects given to validateConfig: every fiscal label with every
\* annual budget, and every annual budget with every four quarters.
ConfigData ==
    LET FiscalLabels ==
            {Undefined, FromInt(2025), Str(<<>>), Str(<<"F">>), Str(<<" ", "F", " ">>),
             Str(<<"F", "Y", "2", "5">>)}
    IN
    {[ValidConfig EXCEPT !.fiscalLabel = l, !.annualBudget = a] :
        l \in FiscalLabels, a \in AnnualBudgets}
    \cup {[ValidConfig EXCEPT !.annualBudget = a, !.q1 = v[1], !.q2 = v[2],
                              !.q3 = v[3], !.q4 = v[4]] :
            a \in AnnualBudgets, v \in [1..4 -> QuarterValues]}

----------------------------------------------------------------------------
(* sanitizeString and sanitizeCampaign                                      *)

UpperCaseLetters ==
    <<"A", "B", "C", "D", "E", "F", "G", "H", "I", "J", "K", "L", "M",
      "N", "O", "P", "Q", "R", "S", "T", "U", "V", "W", "X", "Y", "Z">>

LowerCaseLetters ==
    <<"a", "b", "c", "d", "e", "f", "g", "h", "i", "j", "k", "l", "m",
      "n", "o", "p", "q", "r", "s", "t", "u", "v", "w", "x", "y", "z">>

\* The characters of \w.
WordChars ==
    {UpperCaseLetters[i] : i \in DOMAIN UpperCaseLetters} \cup
    {LowerCaseLetters[i] : i \in DOMAIN LowerCaseLetters} \cup
    {"0", "1", "2", "3", "4", "5", "6", "7", "8", "9", "_"}

\* The lower-case form of a character: how the flag i compares letters, and
\* what toLowerCase does.
ToLowerChar(c) ==
    IF \E i \in DOMAIN UpperCaseLetters : UpperCaseLetters[i] = c
    THEN LowerCaseLetters[CHOOSE i \in DOMAIN UpperCaseLetters :
                              UpperCaseLetters[i] = c]
    ELSE c

ToLowerCase(s) == [i \in DOMAIN s |-> ToLowerChar(s[i])]

\* s from its i-th character on.
From(s, i) == SubSeq(s, i, Len(s))

StartsWith(s, p) == Len(s) >= Len(p) /\ SubSeq(s, 1, Len(p)) = p

\* The number of leading characters of s that are in chars.
RECURSIVE Run(_, _)
Run(s, chars) ==
    IF s # <<>> /\ Head(s) \in chars THEN 1 + Run(Tail(s), chars) ELSE 0

\* input.replace(/<[^>]*>/g, ''): from each '<' that a '>' follows, the text
\* up to the first such '>' is removed, and the scan goes on after it.
RECURSIVE WithoutHtml(_)
WithoutHtml(s) ==
    IF s = <<>> THEN s
    ELSE IF Head(s) = "<" /\ \E j \in 2..Len(s) : s[j] = ">"
    THEN LET j == CHOOSE j \in 2..Len(s) :
                      s[j] = ">" /\ \A k \in 2..(j - 1) : s[k] # ">"
         IN  WithoutHtml(From(s, j + 1))
    ELSE <<Head(s)>> \o WithoutHtml(Tail(s))

javascript == <<"j", "a", "v", "a", "s", "c", "r", "i", "p", "t", ":">>

\* withoutHtml.replace(/javascript:/gi, '')
RECURSIVE WithoutScripts(_)
WithoutScripts(s) ==
    IF s = <<>> THEN s
    ELSE IF StartsWith(ToLowerCase(s), javascript)
    THEN WithoutScripts(From(s, Len(javascript) + 1))
    ELSE <<Head(s)>> \o WithoutScripts(Tail(s))

\* The length of the match of /on\w+\s*=/i at the start of s, 0 when there is
\* none.  Of the characters of \s the strings of the model hold the blank.  \w+ and \s* are greedy, and giving back a character never helps:
\* the character given back is neither a blank nor '='.
EventLength(s) ==
    IF StartsWith(ToLowerCase(s), <<"o", "n">>)
    THEN LET rest == From(s, 3)
             w == Run(rest, WordChars)
             b == Run(From(rest, w + 1), {" "})
         IN  IF w >= 1 /\ Len(rest) > w + b /\ rest[w + b + 1] = "="
             THEN 2 + w + b + 1
             ELSE 0
    ELSE 0

\* withoutScripts.replace(/on\w+\s*=/gi, '')
RECURSIVE WithoutEvents(_)
WithoutEvents(s) ==
    IF s = <<>> THEN s
    ELSE IF EventLength(s) > 0
    THEN WithoutEvents(From(s, EventLength(s) + 1))
    ELSE <<Head(s)>> \o WithoutEvents(Tail(s))

\* sanitizeString where window.DOMPurify is not loaded: the fallback.
sanitizeString(input) ==
    LET \* s.slice(0, n)
        Slice(s, n) == SubSeq(s, 1, IF Len(s) < n THEN Len(s) ELSE n)
    IN
    IF input.t # "str" THEN Str(<<>>)
    ELSE Str(Slice(Trim(WithoutEvents(WithoutScripts(WithoutHtml(input.s)))),
                   500))

sanitizeCampaign(d) ==
    [d EXCEPT !.name = sanitizeString(d.name),
              !.provider = sanitizeString(d.provider),
              !.type = sanitizeString(d.type),
              !.month = sanitizeString(d.month)]

----------------------------------------------------------------------------
(* The inputs of sanitizeCampaign                                           *)

MaxPieces == 3

\* The texts put together from at most n of the pieces.
RECURSIVE Joined(_, _)
Joined(pieces, n) ==
    IF n = 0 THEN {<<>>}
    ELSE Joined(pieces, n - 1) \cup
         {s \o p : s \in Joined(pieces, n - 1), p \in pieces}

\* The campaign objects given to sanitizeCampaign: every name, and every
\* provider.
SanitizeData ==
    LET \* The texts the strings are put together from.
        Pieces ==
            {<<"<">>,
             <<">">>,
             <<"j", "a", "v", "a", "s", "c", "r", "i", "p", "t", ":">>,
             <<"j", "a", "v", "a">>,
             <<"s", "c", "r", "i", "p", "t", ":">>,
             <<"J", "a", "V", "a", "S", "c", "R", "i", "P", "t", ":">>,
             <<"o", "n", "x", "=">>,
             <<"O", "N", "L", "O", "A", "D", " ", "=">>,
             <<"a">>,
             <<" ">>}
        \* The strings of at most MaxPieces pieces, and values that are not strings.
        SanitizeInputs == {Str(s) : s \in Joined(Pieces, MaxPieces)} \cup {Undefined, FromInt(7)}
    IN
    {[ValidData EXCEPT !.name = v] : v \in SanitizeInputs}
    \cup {[ValidData EXCEPT !.provider = v] : v \in SanitizeInputs}

----------------------------------------------------------------------------
(* isAllowedDomain                                                          *)

allowedDomains ==
    {<<"v", "o", "l", "v", "o", "c", "a", "r", "s", ".", "c", "o", "m">>,
     <<"v", "o", "l", "v", "o", ".", "c", "o", "m">>}

\* s.split('@'): the texts between the '@' characters of s.
RECURSIVE Split(_)
Split(s) ==
    IF \E i \in DOMAIN s : s[i] = "@"
    THEN LET i == CHOOSE i \in DOMAIN s :
                      s[i] = "@" /\ \A k \in 1..(i - 1) : s[k] # "@"
         IN  <<SubSeq(s, 1, i - 1)>> \o Split(From(s, i + 1))
    ELSE <<s>>

isAllowedDomain(email) ==
    LET \* email.split('@')[1]?.toLowerCase()
        DomainOf(parts) ==
            IF Len(parts) >= 2 THEN Str(ToLowerCase(parts[2])) ELSE Undefined
    IN
    IF Not(email) \/ email.t # "str" THEN FALSE
    ELSE LET domain == DomainOf(Split(email.s))
         IN  IF ~Not(domain) THEN domain.s \in allowedDomains ELSE FALSE

\* The arguments of isAllowedDomain: the addresses of at most MaxPieces
\* pieces, and values that are not strings.
Emails ==
    LET \* The texts the addresses are put together from.
        EmailPieces ==
            {<<"@">>,
             <<"a", "@">>,
             <<"v", "o", "l", "v", "o", ".", "c", "o", "m">>,
             <<"v", "o", "l", "v", "o", "c", "a", "r", "s", ".", "c", "o", "m">>,
             <<"V", "o", "l", "v", "o", "C", "a", "r", "s", ".", "C", "O", "M">>,
             <<"@", "e", "v", "i", "l", ".", "c", "o", "m">>,
             <<".", "e", "v", "i", "l", ".", "c", "o", "m">>}
    IN
    {Str(s) : s \in Joined(EmailPieces, MaxPieces)} \cup
    {Undefined, Null, Zero, FromInt(7)}

InitValidate ==
    /\ pc = "call"
    /\ \/ op = "validateCampaign" /\ data \in CampaignData
       \/ op = "validateConfig" /\ data \in ConfigData
       \/ op = "sanitizeCampaign" /\ data \in SanitizeData
       \/ op = "isAllowedDomain" /\ data \in Emails
    /\ result = Undefined
    /\ value = Undefined
    /\ benchmark = Undefined
    /\ lowerIsBetter = FALSE
    /\ isEngagement = FALSE
    /\ avgScore = Undefined
    /\ campaigns = Undefined
    /\ metric = ""
    /\ campaignType = ""
    /\ divided = FALSE
    /\ tasks = <<>>
    /\ cells = <<>>
    /\ OthersAtRest

CallValidateCampaign ==
    /\ pc = "call"
    /\ op = "validateCampaign"
    /\ result' = validateCampaign(data)
    /\ pc' = "done"
    /\ UNCHANGED <<op, value, benchmark, lowerIsBetter, isEngagement, avgScore,
                   campaigns, metric, campaignType, divided, data, tasks, cells,
                   scores, boundaryVars>>

CallValidateConfig ==
    /\ pc = "call"
    /\ op = "validateConfig"
    /\ result' = validateConfig(data)
    /\ divided' = BudgetGuard(data)
    /\ pc' = "done"
    /\ UNCHANGED <<op, value, benchmark, lowerIsBetter, isEngagement, avgScore,
                   campaigns, metric, campaignType, data, tasks, cells,
                   scores, boundaryVars>>

CallSanitizeCampaign ==
    /\ pc = "call"
    /\ op = "sanitizeCampaign"
    /\ result' = sanitizeCampaign(data)
    /\ pc' = "done"
    /\ UNCHANGED <<op, value, benchmark, lowerIsBetter, isEngagement, avgScore,
                   campaigns, metric, campaignType, divided, data, tasks, cells,
                   scores, boundaryVars>>

CallIsAllowedDomain ==
    /\ pc = "call"
    /\ op = "isAllowedDomain"
    /\ result' = isAllowedDomain(data)
    /\ pc' = "done"
    /\ UNCHANGED <<op, value, benchmark, lowerIsBetter, isEngagement, avgScore,
                   campaigns, metric, campaignType, divided, data, tasks, cells,
                   scores, boundaryVars>>

NextValidate ==
    \/ CallIsAllowedDomain
    \/ CallValidateCampaign
    \/ CallValidateConfig
    \/ CallSanitizeCampaign

SpecValidate == InitValidate /\ [][NextValidate]_vars

----------------------------------------------------------------------------
(* Properties of validateCampaign                                           *)

\* A numeric field that is absent or a finite non-negative number.
AbsentOrFinite(v) == v.t = "undefined" \/ (v.t = "num" /\ v.n >= 0)

\* C20: every campaign object validateCampaign finds valid has a type in
\* {Awareness, Conversion} and has every numeric field of its plan and of
\* its actuals absent or a finite non-negative number.
C20_ValidCampaignIsWellTyped ==
    (pc = "done" /\ op = "validateCampaign" /\ ~result.threw /\ result.isValid) =>
        /\ data.type \in {Awareness, Conversion}
        /\ data.plan.t = "object" =>
              \A f \in PlanFields : AbsentOrFinite(data.plan.fields[f])
        /\ data.actuals.t = "object" =>
              \A f \in CampaignActualsFields :
                  AbsentOrFinite(data.actuals.fields[f])

\* What does hold of the code: a valid campaign has a type of the two, and
\* the fields the validator tests are numbers that are not negative.
ValidCampaignChecked ==
    (pc = "done" /\ op = "validateCampaign" /\ ~result.threw /\ result.isValid) =>
        /\ data.type \in {Awareness, Conversion}
        /\ data.plan.t = "object" =>
              /\ IsNumber(data.plan.fields.spend)
              /\ ~JsLt(data.plan.fields.spend, Zero)
        /\ data.actuals.t = "object" =>
              /\ IsNumber(data.actuals.fields.spend)
              /\ ~JsLt(data.actuals.fields.spend, Zero)

\* C21: validateCampaign and validateConfig never throw: for every input
\* object they return a result, and isValid is true exactly when the errors
\* map is empty.
C21_ValidatorsNeverThrow ==
    (pc = "done" /\ op \in {"validateCampaign", "validateConfig"}) =>
        /\ ~result.threw
        /\ result.isValid <=> (DOMAIN result.errors = {})

----------------------------------------------------------------------------
(* Properties of validateConfig                                             *)

\* The config of a call is made of finite whole numbers.
WholeConfig ==
    \A f \in {"annualBudget", "q1", "q2", "q3", "q4"} :
        data[f].t = "num" /\ data[f].d = 1

\* |q1 + q2 + q3 + q4 - annualBudget| exceeds 1 percent of annualBudget.
SumOffByMoreThanOnePercent ==
    100 * Abs(data.q1.n + data.q2.n + data.q3.n + data.q4.n - data.annualBudget.n)
        > data.annualBudget.n

\* C24: validateConfig reports the 'quarters' error exactly when
\* annualBudget > 0 and the quarters' sum differs from annualBudget by more
\* than 1 percent of it; for an annualBudget of zero or less the check is
\* not made and nothing is divided by annualBudget.
C24_QuartersErrorIffOffByOnePercent ==
    (pc = "done" /\ op = "validateConfig" /\ ~result.threw /\ WholeConfig) =>
        /\ ("quarters" \in DOMAIN result.errors) <=>
              (data.annualBudget.n > 0 /\ SumOffByMoreThanOnePercent)
        /\ data.annualBudget.n <= 0 =>
              ("quarters" \notin DOMAIN result.errors /\ ~divided)

C24_Witness ==
    /\ pc = "done"
    /\ op = "validateConfig"
    /\ WholeConfig
    /\ data.annualBudget = FromInt(100)
    /\ data.q1.n + data.q2.n + data.q3.n + data.q4.n = 102
    /\ DOMAIN result.errors = {"quarters"}

----------------------------------------------------------------------------
(* Properties of sanitizeCampaign                                           *)

\* s holds a tag: a '<' that a '>' follows.
HasTag(s) == \E i, j \in DOMAIN s : i < j /\ s[i] = "<" /\ s[j] = ">"

\* s holds 'javascript:' in some letter case.
HasJavascript(s) ==
    \E i \in DOMAIN s :
        /\ i + 10 <= Len(s)
        /\ ToLowerCase(SubSeq(s, i, i + 10)) = javascript

\* s holds an event handler: 'on' in some letter case, one or more word
\* characters, blanks, and '='.
HasEvent(s) ==
    \E i, k, j \in DOMAIN s :
        /\ i + 2 <= k
        /\ k < j
        /\ ToLowerCase(SubSeq(s, i, i + 1)) = <<"o", "n">>
        /\ \A m \in (i + 2)..k : s[m] \in WordChars
        /\ \A m \in (k + 1)..(j - 1) : s[m] = " "
        /\ s[j] = "="

MarkupFree(s) == ~HasTag(s) /\ ~HasJavascript(s) /\ ~HasEvent(s)

\* C22: the name and the provider that sanitizeCampaign returns hold no tag
\* '<...>', no 'javascript:' in any letter case and no 'on<word>=' text.
C22_SanitizedIsMarkupFree ==
    (pc = "done" /\ op = "sanitizeCampaign") =>
        /\ MarkupFree(result.name.s)
        /\ MarkupFree(result.provider.s)

\* What does hold: the sanitized name and provider hold no tag.
SanitizedIsTagFree ==
    (pc = "done" /\ op = "sanitizeCampaign") =>
        /\ ~HasTag(result.name.s)
        /\ ~HasTag(result.provider.s)

----------------------------------------------------------------------------
(* Properties of isAllowedDomain                                            *)

HasAt(s) == \E i \in DOMAIN s : s[i] = "@"

\* The whole text after the first '@' of s.
AfterAt(s) ==
    From(s, 1 + CHOOSE i \in DOMAIN s : s[i] = "@" /\ \A k \in 1..(i - 1) : s[k] # "@")

\* C25: isAllowedDomain(email) is true exactly when email is a string whose
\* whole text after the '@' is volvocars.com or volvo.com in some letter
\* case; it is false for null, for the empty string, for what is not a
\* string, for a string without '@' and for an address of another domain.
C25_AllowedIffDomainAfterAt ==
    (pc = "done" /\ op = "isAllowedDomain") =>
        (result <=>
            /\ data.t = "str"
            /\ HasAt(data.s)
            /\ ToLowerCase(AfterAt(data.s)) \in allowedDomains)

\* What does hold: the address is allowed exactly when the text between its
\* first and its second '@' (or its end) is an allowed domain.
AllowedIffSecondPart ==
    (pc = "done" /\ op = "isAllowedDomain") =>
        (result <=>
            /\ data.t = "str"
            /\ HasAt(data.s)
            /\ \E d \in allowedDomains :
                  \/ ToLowerCase(AfterAt(data.s)) = d
                  \/ StartsWith(ToLowerCase(AfterAt(data.s)), d \o <<"@">>))

----------------------------------------------------------------------------
(* Relations between calls of scoreMetric                                   *)

\* The value on the other side of the benchmark: its percentDiff is the
\* negative of the percentDiff of value.
MirrorValue == JsSub(JsMul(FromInt(2), benchmark), value)

\* C26: scoreMetric is mirror-symmetric: the score of a percentDiff d with
\* lowerIsBetter = true is the score of -d with lowerIsBetter = false, for
\* either threshold, at d = -threshold, 0 and +threshold too.
C26_MirrorSymmetric ==
    ScoredAgainstBenchmark =>
        result = scoreMetric(MirrorValue, benchmark, ~lowerIsBetter, isEngagement)

\* A cost exactly 15 percent under its benchmark scored Excellent, as a rate
\* exactly 15 percent over it does.
C26_Witness ==
    /\ ScoredAgainstBenchmark
    /\ lowerIsBetter
    /\ ~isEngagement
    /\ benchmark = FromInt(20)
    /\ value = FromInt(17)
    /\ MirrorValue = FromInt(23)
    /\ result = FromInt(4)

\* The finite values scoreMetric is called with.
NumericValues == {v \in Values : v.t = "num"}

\* a is a score at least as good as b.
ScoreAtLeast(a, b) == a.n * b.d >= b.n * a.d

\* C27: for a positive benchmark and a given isEngagement, scoreMetric is
\* monotonic in value: with lowerIsBetter = true no smaller value scores
\* lower than value, with lowerIsBetter = false no larger value does.
C27_MonotonicInValue ==
    (ScoredAgainstBenchmark /\ benchmark.n > 0) =>
        \A w \in NumericValues :
            (IF lowerIsBetter THEN JsLe(w, value) ELSE JsLe(value, w)) =>
                ScoreAtLeast(scoreMetric(w, benchmark, lowerIsBetter, isEngagement),
                             result)

\* A rate above its benchmark scored Good, and a larger one scores Excellent.
C27_Witness ==
    /\ ScoredAgainstBenchmark
    /\ ~lowerIsBetter
    /\ ~isEngagement
    /\ benchmark = FromInt(20)
    /\ value = FromInt(21)
    /\ result = FromInt(3)
    /\ scoreMetric(FromInt(24), benchmark, lowerIsBetter, isEngagement) = FromInt(4)

----------------------------------------------------------------------------
(* calculateAverageMetric and a metric it does not know                     *)

\* C29: on a cohort that is not empty and with a metric other than 'cpm',
\* 'cpe', 'rate' and 'roas', calculateAverageMetric returns 0: every record
\* contributes 0, nothing is thrown and the result is not null.
C29_UnknownMetricGivesZero ==
    (/\ pc = "done"
     /\ op = "calculateAverageMetric"
     /\ campaigns.t = "array"
     /\ Len(campaigns.items) > 0
     /\ metric \notin {"cpm", "cpe", "rate", "roas"}) =>
        result = Zero

\* A cohort of records with full actuals averaged to 0 under a metric the
\* function does not know.
C29_Witness ==
    /\ pc = "done"
    /\ op = "calculateAverageMetric"
    /\ campaigns.t = "array"
    /\ Len(campaigns.items) = MaxCohort
    /\ \A i \in DOMAIN campaigns.items :
          /\ campaigns.items[i].hasActuals
          /\ campaigns.items[i].actuals.spend.t = "num"
          /\ campaigns.items[i].actuals.spend.n > 0
          /\ campaigns.items[i].actuals.gp.t = "num"
          /\ campaigns.items[i].actuals.gp.n > 0
    /\ metric = "engagementRate"
    /\ result = Zero

----------------------------------------------------------------------------
(* The evaluation of a proposed plan                                        *)
(*                                                                          *)
(* The caller of the engine: for each tracked metric it takes the           *)
(* benchmark of the cohort from calculateAverageMetric and the score of     *)
(* the proposed value from scoreMetric, then averages the scores and takes  *)
(* the tier of the average from getRecommendation.                          *)

TrackedMetrics == <<"cpm", "cpe", "rate", "roas">>

\* Costs are better when lower, rates and returns when higher.
LowerIsBetterOf(m) == m \in {"cpm", "cpe"}

\* The metrics of the engagement count.
IsEngagementOf(m) == m \in {"cpe", "rate"}

RECURSIVE SumOfScores(_)
SumOfScores(s) == IF s = <<>> THEN Zero ELSE JsAdd(Head(s), SumOfScores(Tail(s)))

\* The mean of the scores.
AverageOfScores(s) == JsDiv(SumOfScores(s), FromInt(Len(s)))

EvaluatedCohorts ==
    LET \* The records the evaluated cohorts are drawn from.
        EvaluatedCampaigns ==
            {WithoutActuals,
             Campaign("Conversion", NoActuals),
             Campaign("Awareness", [f \in ActualsFields |-> Zero]),
             Scenario1A,
             Campaign("Conversion", FullActuals)}
    IN
    UNION {{Array(c) : c \in [1..n -> EvaluatedCampaigns]} : n \in 0..MaxCohort}

InitEvaluate ==
    /\ pc = "aggregate"
    /\ op = "evaluate"
    /\ campaigns \in EvaluatedCohorts
    /\ campaignType \in CampaignTypes
    /\ metric = TrackedMetrics[1]
    /\ value = Undefined
    /\ benchmark = Undefined
    /\ lowerIsBetter = FALSE
    /\ isEngagement = FALSE
    /\ avgScore = Undefined
    /\ result = Undefined
    /\ divided = FALSE
    /\ data = Undefined
    /\ tasks = <<>>
    /\ cells = <<>>
    /\ OthersAtRest

\* The benchmark of the metric at hand.
EvaluateAggregate ==
    /\ pc = "aggregate"
    /\ benchmark' = calculateAverageMetric(campaigns, metric, campaignType)
    /\ pc' = "score"
    /\ UNCHANGED <<op, value, lowerIsBetter, isEngagement, avgScore, campaigns,
                   metric, campaignType, result, divided, data, tasks, cells,
                   scores, boundaryVars>>

\* The score of the value proposed for the metric at hand; the next metric
\* follows, or the average once every metric is scored.
EvaluateScore ==
    LET \* The position of the metric m among the tracked metrics.
        PositionOf(m) == CHOOSE i \in DOMAIN TrackedMetrics : TrackedMetrics[i] = m
        \* The values a plan proposes for a metric.
        ProposedValues == {Zero, FromInt(10), FromInt(MaxValue), NaN}
    IN
    /\ pc = "score"
    /\ \E v \in ProposedValues :
          /\ value' = v
          /\ result' = scoreMetric(v, benchmark, LowerIsBetterOf(metric),
                                   IsEngagementOf(metric))
    /\ lowerIsBetter' = LowerIsBetterOf(metric)
    /\ isEngagement' = IsEngagementOf(metric)
    /\ divided' = ~BenchmarkGuard(benchmark)
    /\ scores' = Append(scores, result')
    /\ IF PositionOf(metric) < Len(TrackedMetrics)
       THEN /\ metric' = TrackedMetrics[PositionOf(metric) + 1]
            /\ pc' = "aggregate"
       ELSE /\ metric' = metric
            /\ pc' = "average"
    /\ UNCHANGED <<op, benchmark, avgScore, campaigns, campaignType, data,
                   tasks, cells, boundaryVars>>

EvaluateAverage ==
    /\ pc = "average"
    /\ avgScore' = AverageOfScores(scores)
    /\ pc' = "recommend"
    /\ UNCHANGED <<op, value, benchmark, lowerIsBetter, isEngagement, campaigns,
                   metric, campaignType, result, divided, data, tasks, cells,
                   scores, boundaryVars>>

EvaluateRecommend ==
    /\ pc = "recommend"
    /\ result' = getRecommendation(avgScore)
    /\ pc' = "done"
    /\ UNCHANGED <<op, value, benchmark, lowerIsBetter, isEngagement, avgScore,
                   campaigns, metric, campaignType, divided, data, tasks, cells,
                   scores, boundaryVars>>

NextEvaluate ==
    \/ EvaluateAggregate
    \/ EvaluateScore
    \/ EvaluateAverage
    \/ EvaluateRecommend

SpecEvaluate == InitEvaluate /\ [][NextEvaluate]_vars

\* The record c is skipped for every tracked metric: it has no actuals, or
\* its impressions, its engagement count and its spend are missing or zero.
SkippedForAll(c) ==
    \/ ~c.hasActuals
    \/ /\ MissingOrZero(c.actuals.impressions)
       /\ MissingOrZero(EngagementOf(c))
       /\ MissingOrZero(c.actuals.spend)

\* The cohort gives no comparison: it is empty, or all of it is skipped.
NoComparison ==
    \A i \in DOMAIN campaigns.items : SkippedForAll(campaigns.items[i])

\* C28: when the cohort is empty (every benchmark null) or all of it is
\* skipped for every tracked metric (every benchmark 0), every scoreMetric
\* call returns Good (3), the average score is 3 and getRecommendation
\* returns the Good tier, whatever values the plan proposes.
C28_NoComparisonIsGood ==
    (op = "evaluate" /\ NoComparison) =>
        /\ pc = "score" =>
              benchmark = (IF Len(campaigns.items) = 0 THEN Null ELSE Zero)
        /\ \A i \in DOMAIN scores : scores[i] = FromInt(3)
        /\ pc \in {"recommend", "done"} => avgScore = FromInt(3)
        /\ pc = "done" => result = RECOMMENDATION_LEVELS.GOOD

\* A plan proposing different values was rated Good against a cohort of two
\* skipped records.
C28_Witness ==
    /\ op = "evaluate"
    /\ pc = "done"
    /\ Len(campaigns.items) = 2
    /\ NoComparison
    /\ value = FromInt(MaxValue)
    /\ Len(scores) = Len(TrackedMetrics)
    /\ result = RECOMMENDATION_LEVELS.GOOD

----------------------------------------------------------------------------
(* ErrorBoundary                                                            *)
(*                                                                          *)
(* React hands to the boundary the errors its children throw while they     *)
(* render: it calls getDerivedStateFromError, renders the boundary again    *)
(* and calls componentDidCatch.  An error thrown by the render of the       *)
(* boundary itself is not handed to it: with no boundary above, React       *)
(* unmounts the tree.  Errors thrown in event handlers and in asynchronous  *)
(* code of the children are handed to no boundary and are not modelled.     *)
(* 'Go to Dashboard' leaves the page and ends the component.                *)

ThrownValues ==
    LET \* The values a child throws: an Error, null, and an object that has no
        \* method toString (Object.create(null)).
        ErrorObject == [t |-> "error", hasToString |-> TRUE]
        BareObject == [t |-> "error", hasToString |-> FALSE]
    IN
    {ErrorObject, Null, BareObject}

Keys == {" ", "Enter", "Tab", "Escape", "a"}

\* React merges the object getDerivedStateFromError returns into the state.
getDerivedStateFromError(st, error) == [st EXCEPT !.hasError = TRUE]

\* this.setState({ error, errorInfo })
componentDidCatch(st, error, errorInfo) ==
    [st EXCEPT !.error = error, !.errorInfo = errorInfo]

\* handleReset putting back the whole state of the constructor.
handleResetToConstructed(st) == ConstructedState

handleReset(st) ==
    [st EXCEPT !.hasError = FALSE, !.error = Null, !.errorInfo = Null]

toggleDetails(st) == [st EXCEPT !.isDetailsOpen = ~@]

handleDetailsKeyDown(st, k) ==
    IF k = " " \/ k = "Enter" THEN toggleDetails(st) ELSE st

\* The details block is part of the fallback.
DetailsShown(st, dev) == dev /\ ~Not(st.error)

\* What render returns: the children, the fallback, or nothing when it
\* throws: this.state.error.toString() is called, with the details open, on
\* whatever was thrown.
render(st, dev) ==
    IF st.hasError
    THEN IF DetailsShown(st, dev) /\ st.isDetailsOpen /\ ~st.error.hasToString
         THEN "throws"
         ELSE "fallback"
    ELSE "children"

\* The state st is set and the boundary renders again; when its render
\* throws, the tree is unmounted.
Rerender(st) ==
    /\ state' = st
    /\ IF render(st, development) = "throws"
       THEN view' = "unmounted" /\ pc' = "crashed"
       ELSE view' = render(st, development) /\ pc' = "idle"

InitBoundary ==
    LET engineAtRest ==
            /\ value = Undefined
            /\ benchmark = Undefined
            /\ lowerIsBetter = FALSE
            /\ isEngagement = FALSE
            /\ avgScore = Undefined
            /\ campaigns = Undefined
            /\ metric = ""
            /\ campaignType = ""
            /\ result = Undefined
            /\ divided = FALSE
            /\ data = Undefined
            /\ tasks = <<>>
            /\ cells = <<>>
            /\ scores = <<>>
    IN
    /\ pc = "idle"
    /\ op = "constructor"
    /\ BoundaryMounted
    /\ development \in BOOLEAN
    /\ engineAtRest

otherVars ==
    <<value, benchmark, lowerIsBetter, isEngagement, avgScore, campaigns,
      metric, campaignType, result, divided, data, tasks, cells, scores,
      development>>

\* A child throws e while it renders.
ChildThrows ==
    /\ pc = "idle"
    /\ view = "children"
    /\ \E e \in ThrownValues : thrown' = e
    /\ pc' = "derive"
    /\ UNCHANGED <<op, state, view, keydown, otherVars>>

\* React derives the state from the error and renders the boundary again.
DeriveState ==
    /\ pc = "derive"
    /\ op' = "getDerivedStateFromError"
    /\ state' = getDerivedStateFromError(state, thrown)
    /\ IF render(state', development) = "throws"
       THEN view' = "unmounted" /\ pc' = "crashed"
       ELSE view' = render(state', development) /\ pc' = "commit"
    /\ UNCHANGED <<thrown, keydown, otherVars>>

\* React calls componentDidCatch once the fallback is committed.
DidCatch ==
    LET \* The second argument of componentDidCatch.
        ErrorInfo == [t |-> "object", componentStack |-> "in Child"]
    IN
    /\ pc = "commit"
    /\ op' = "componentDidCatch"
    /\ Rerender(componentDidCatch(state, thrown, ErrorInfo))
    /\ thrown' = Undefined
    /\ UNCHANGED <<keydown, otherVars>>

\* onClick of 'Try Again'.
ClickTryAgain ==
    /\ pc = "idle"
    /\ view = "fallback"
    /\ op' = "handleReset"
    /\ Rerender(handleReset(state))
    /\ UNCHANGED <<thrown, keydown, otherVars>>

\* onClick of the details header.
ClickDetails ==
    /\ pc = "idle"
    /\ view = "fallback"
    /\ DetailsShown(state, development)
    /\ op' = "toggleDetails"
    /\ Rerender(toggleDetails(state))
    /\ UNCHANGED <<thrown, keydown, otherVars>>

\* onKeyDown of the details header.
KeyDownDetails ==
    /\ pc = "idle"
    /\ view = "fallback"
    /\ DetailsShown(state, development)
    /\ \E k \in Keys :
          /\ keydown' = k
          /\ Rerender(handleDetailsKeyDown(state, k))
    /\ op' = "handleDetailsKeyDown"
    /\ UNCHANGED <<thrown, otherVars>>

\* onMouseEnter and onMouseLeave of 'Try Again'.
HoverTryAgain ==
    /\ pc = "idle"
    /\ view = "fallback"
    /\ \E h \in BOOLEAN : Rerender([state EXCEPT !.isHoveringTryAgain = h])
    /\ op' = "hoverTryAgain"
    /\ UNCHANGED <<thrown, keydown, otherVars>>

\* onMouseEnter and onMouseLeave of 'Go to Dashboard'.
HoverDashboard ==
    /\ pc = "idle"
    /\ view = "fallback"
    /\ \E h \in BOOLEAN : Rerender([state EXCEPT !.isHoveringDashboard = h])
    /\ op' = "hoverDashboard"
    /\ UNCHANGED <<thrown, keydown, otherVars>>

NextBoundary ==
    \/ ChildThrows
    \/ DeriveState
    \/ DidCatch
    \/ ClickTryAgain
    \/ ClickDetails
    \/ KeyDownDetails
    \/ HoverTryAgain
    \/ HoverDashboard

SpecBoundary == InitBoundary /\ [][NextBoundary]_vars

----------------------------------------------------------------------------
(* Properties of ErrorBoundary                                              *)

\* C23: the boundary catches every error its children throw: no error is
\* left uncaught, from the catch on hasError is true and the fallback is
\* what is rendered, and without hasError the children are rendered.
C23_EveryErrorCaught ==
    /\ view # "unmounted"
    /\ state.hasError => view = "fallback"
    /\ (pc = "idle" /\ ~state.hasError) => view = "children"

\* What does hold: hasError is cleared by handleReset alone, and while the
\* boundary is mounted it renders the fallback exactly when hasError is set.
FallbackUntilReset ==
    [][/\ (state.hasError /\ ~state'.hasError) => op' = "handleReset"
       /\ view' # "unmounted" => (state'.hasError <=> view' = "fallback")]_vars

\* The handlers that leave the error alone.
DetailsAndHoverHandlers ==
    {"toggleDetails", "handleDetailsKeyDown", "hoverTryAgain", "hoverDashboard"}

\* C30: handleReset changes hasError, error and errorInfo only and leaves
\* isDetailsOpen and both hover flags as they are; toggleDetails, the details
\* key handler and the hover handlers leave hasError, error and errorInfo as
\* they are; the key handler toggles isDetailsOpen for Space and Enter and
\* for no other key.
C30_HandlersFrame ==
    [][/\ op' = "handleReset" =>
             /\ state'.isDetailsOpen = state.isDetailsOpen
             /\ state'.isHoveringTryAgain = state.isHoveringTryAgain
             /\ state'.isHoveringDashboard = state.isHoveringDashboard
             /\ ~state'.hasError
             /\ state'.error = Null
             /\ state'.errorInfo = Null
       /\ op' \in DetailsAndHoverHandlers =>
             /\ state'.hasError = state.hasError
             /\ state'.error = state.error
             /\ state'.errorInfo = state.errorInfo
       /\ (op' = "handleDetailsKeyDown" /\ keydown' \notin {" ", "Enter"}) =>
             state' = state
       /\ (op' = "handleDetailsKeyDown" /\ keydown' \in {" ", "Enter"}) =>
             state' = [state EXCEPT !.isDetailsOpen = ~@]]_vars

\* Try Again ran with the details open: they are open still, and the error
\* is gone.
C30_Witness ==
    /\ op = "handleReset"
    /\ state.isDetailsOpen
    /\ ~state.hasError
    /\ state.error = Null
    /\ view = "children"

====
